---- MODULE Spec2Model ----
(***************************************************************************)
(* Daily_Dashboard_NTB: the derivation of a customer record's              *)
(* registration status, days to onboard and onboarding bracket, the        *)
(* chunked year-to-date preprocessor, the year-over-year comparisons, the   *)
(* rate, funnel and cohort computations of the dashboards, the chunked      *)
(* scans of preprocess_large_csv.py, of the notebook and of                 *)
(* load_complete_data, and the runner run_ytd_analysis.py.                  *)
(***************************************************************************)
EXTENDS Integers, Sequences, FiniteSets, TLC

VARIABLES
    raw,            \* the input row being derived (one row of the DataFrame)
    derived,        \* the derived columns of that row, and the code path that set them
    current_date,   \* pd.Timestamp.now() of the derivation
    monthly_cohorts, \* the monthly cohort analysis of the derived row's frame
    counts,         \* the row counts a rate computation starts from
    metrics,        \* what the rate computation returned, or that it raised
    prog,           \* the program that is run on the input file
    file,           \* the rows of the input CSV file, in file order
    reference_date, \* the YTD reference date (today, --reference-date, or the date input)
    chunk_size,     \* the chunksize of pd.read_csv
    rows_processed, \* the rows of the file the chunk loop has consumed
    summary_stats,  \* ytd_preprocessor: year -> summary counters
    ytd_data,       \* year -> the YTD rows kept for that year
    daily_patterns, \* analyze_ytd_patterns: year -> day of year -> count
    selection,      \* the dashboard's sidebar selection (years, region)
    comparisons,    \* the year-over-year comparisons that were produced
    outputs,        \* the output files that were written
    pc,             \* where the program is, or the exception that ended it
    yearly_data,    \* create_yearly_files: year -> the list of frames kept for it
    summary_data,   \* create_summary_stats: the list of per-chunk summaries
    final_summary,  \* create_summary_stats: the summary that is saved
    recent_data,    \* create_recent_data_file: the list of frames kept
    chunks,         \* load_complete_data: the list of chunks read
    df,             \* load_complete_data: the frame that is returned
    run,            \* run_ytd_analysis.py and the __main__ of ytd_preprocessor.py
    session_state,  \* ytd_comparison_dashboard.py: st.session_state of the browser session
    script,         \* where the dashboard's script run is, and the widget values it runs with
    disk            \* path -> the rows of the CSV file at that path

deriveVars == <<raw, derived, current_date, monthly_cohorts>>

metricVars == <<counts, metrics>>

ytdVars ==
    <<prog, file, reference_date, chunk_size, rows_processed, summary_stats,
      ytd_data, daily_patterns, selection, comparisons, outputs, pc>>

scanVars == <<yearly_data, summary_data, final_summary, recent_data, chunks, df>>

runVars == <<run>>

sessionVars == <<session_state, script, disk>>

vars == <<deriveVars, metricVars, ytdVars, scanVars, runVars, sessionVars>>

(***************************************************************************)
(* Calendar and timestamps.  A timestamp is a calendar date and a half of  *)
(* the day (0: 00:00, 1: 12:00); NaT is what pd.to_datetime(...,           *)
(* errors='coerce') gives for a null or unparseable cell.                   *)
(***************************************************************************)
Stamp(y, m, d, h) == [year |-> y, month |-> m, day |-> d, half |-> h]

NaT == Stamp(0, 0, 0, 0)

IsNa(t) == t = NaT

IsLeap(y) == (y % 4 = 0 /\ y % 100 # 0) \/ y % 400 = 0

DaysInMonth(y, m) ==
    CASE m \in {1, 3, 5, 7, 8, 10, 12} -> 31
      [] m \in {4, 6, 9, 11} -> 30
      [] OTHER -> IF IsLeap(y) THEN 29 ELSE 28

RECURSIVE DaysBeforeMonth(_, _)
DaysBeforeMonth(y, m) ==
    IF m = 1 THEN 0 ELSE DaysBeforeMonth(y, m - 1) + DaysInMonth(y, m - 1)

\* .dt.dayofyear, timetuple().tm_yday: the 1-based ordinal day within the year
DayOfYear(t) == DaysBeforeMonth(t.year, t.month) + t.day

DaysBeforeYear(y) ==
    LET p == y - 1 IN p * 365 + (p \div 4) - (p \div 100) + (p \div 400)

ToOrdinal(t) == DaysBeforeYear(t.year) + DayOfYear(t)

TicksPerDay == 2

Ticks(t) == TicksPerDay * ToOrdinal(t) + t.half

\* a comparison with NaT is False, whichever side it is on
Lt(a, b) == ~IsNa(a) /\ ~IsNa(b) /\ Ticks(a) < Ticks(b)

Ge(a, b) == ~IsNa(a) /\ ~IsNa(b) /\ Ticks(a) >= Ticks(b)

\* a float cell: a number or NaN
Num(v) == [na |-> FALSE, v |-> v]

NaN == [na |-> TRUE, v |-> 0]

\* (a - b).dt.days: the days component of the Timedelta, which is floored
\* (-12 hours has days = -1); NaN when either side is NaT
TimedeltaDays(a, b) ==
    IF IsNa(a) \/ IsNa(b) THEN NaN
    ELSE Num((Ticks(a) - Ticks(b)) \div TicksPerDay)

\* no row is being derived, and nothing has been derived
NoRow == [open |-> NaT, reg |-> NaT, last |-> NaT, remarks |-> "nan"]

NotDerived ==
    [path |-> "none", status |-> "", days_to_onboard |-> NaN, bracket |-> "",
     days_since |-> NaN, activity |-> "", login_bracket |-> ""]

\* an empty dict
EmptyDict == [k \in {} |-> 0]

\* the region selectbox starts on 'All'
NoSelection == [years |-> {}, region |-> "All"]

\* no program is run on a file
IdleYtd ==
    /\ prog = "none"
    /\ file = <<>>
    /\ reference_date = NaT
    /\ chunk_size = 0
    /\ rows_processed = 0
    /\ summary_stats = EmptyDict
    /\ ytd_data = EmptyDict
    /\ daily_patterns = EmptyDict
    /\ selection = NoSelection
    /\ comparisons = {}
    /\ outputs = {}
    /\ pc = "idle"

\* nothing has been collected by a scan of preprocess_large_csv.py, of the
\* notebook or of load_complete_data
IdleScan ==
    /\ yearly_data = EmptyDict
    /\ summary_data = <<>>
    /\ final_summary = EmptyDict
    /\ recent_data = <<>>
    /\ chunks = <<>>
    /\ df = <<>>

\* no runner has been started
NoRun ==
    [entry |-> "none", step |-> "idle", data_file |-> FALSE, src_dir |-> FALSE,
     packages |-> FALSE, choice |-> "", preprocessing |-> "not started",
     returncode |-> -1, dashboard |-> FALSE]

IdleRun == run = NoRun

\* a key of st.session_state: not in it, None, or a DataFrame
Absent == [state |-> "absent", value |-> <<>>]

None == [state |-> "None", value |-> <<>>]

Frame(rows) == [state |-> "DataFrame", value |-> rows]

\* no browser session of the YTD dashboard
NoSession == [full_data |-> Absent, processed_data |-> Absent]

NoScript == [pc |-> "none", file_path |-> "", button |-> FALSE, interrupted |-> FALSE]

IdleSession ==
    /\ session_state = NoSession
    /\ script = NoScript
    /\ disk = EmptyDict

(***************************************************************************)
(* inet_dashboard.py, preprocess_data                                       *)
(***************************************************************************)
get_registration_status(row) ==
    IF IsNa(row.reg) THEN "Not Registered"
    ELSE IF Lt(row.reg, row.open) THEN "Already Registered"
    ELSE "Registered"

categorize_onboarding_time(status, days) ==
    IF status \in {"Already Registered", "Not Registered"} THEN "None"
    ELSE IF days.na THEN "None"
    ELSE IF days.v <= 7 THEN "Within 1 week"
    ELSE IF days.v <= 15 THEN "Within 15 days"
    ELSE IF days.v <= 30 THEN "15-30 days"
    ELSE IF days.v <= 60 THEN "Within 2 months"
    ELSE IF days.v <= 90 THEN "Within 3 months"
    ELSE IF days.v <= 180 THEN "Within 6 months"
    ELSE "More than 6 months"

\* np.select(conditions, choices, default='Unknown'): the first condition
\* that holds; every comparison with NaN is False
activity_status(days) ==
    IF days.na THEN "Unknown"
    ELSE IF days.v <= 7 THEN "Weekly Active"
    ELSE IF days.v <= 14 THEN "Biweekly Active"
    ELSE IF days.v <= 30 THEN "Monthly Active"
    ELSE IF days.v <= 90 THEN "3 Months Active"
    ELSE IF days.v <= 180 THEN "6 Months Active"
    ELSE IF days.v <= 365 THEN "1 Year Active"
    ELSE "More than 1 Year"

preprocess_data(row, now) ==
    LET status == get_registration_status(row)
        days == TimedeltaDays(row.reg, row.open)
        days_since_last_trx == TimedeltaDays(now, row.last)
    IN  [path |-> "inet_dashboard",
         status |-> status,
         days_to_onboard |-> days,
         bracket |-> categorize_onboarding_time(status, days),
         days_since |-> days_since_last_trx,
         activity |-> activity_status(days_since_last_trx),
         login_bracket |-> "NoColumn"]

(***************************************************************************)
(* ytd_comparison_dashboard.py, process_for_ytd: no onboarding bracket is  *)
(* derived on this path                                                     *)
(***************************************************************************)
ytd_get_registration_status(row) ==
    IF IsNa(row.reg) THEN "Not Registered"
    ELSE IF Lt(row.reg, row.open) THEN "Already Registered"
    ELSE "Registered"

ytd_activity_status(days) ==
    IF days.na THEN "Unknown"
    ELSE IF days.v <= 7 THEN "Weekly Active"
    ELSE IF days.v <= 30 THEN "Monthly Active"
    ELSE IF days.v <= 90 THEN "Quarterly Active"
    ELSE "Inactive"

process_for_ytd(row, now) ==
    LET days_since_last_trx == TimedeltaDays(now, row.last)
    IN  [path |-> "ytd_comparison_dashboard",
         status |-> ytd_get_registration_status(row),
         days_to_onboard |-> TimedeltaDays(row.reg, row.open),
         bracket |-> "NoColumn",
         days_since |-> days_since_last_trx,
         activity |-> ytd_activity_status(days_since_last_trx),
         login_bracket |-> "NoColumn"]

(***************************************************************************)
(* streamlit_app.py and mob_adoption_dashboard.py, process_data:           *)
(* Registration_Remarks is a column of the input, overwritten only where   *)
(* the registration date is older than the open date                        *)
(***************************************************************************)
UpdateRemarks(row) ==
    IF Lt(row.reg, row.open) THEN "Already Registered" ELSE row.remarks

get_onboarding_bracket(days) ==
    IF days.na THEN "Not Registered"
    ELSE IF days.v <= 5 THEN "5 days or less"
    ELSE IF days.v <= 10 THEN "6-10 days"
    ELSE IF days.v <= 30 THEN "11-30 days"
    ELSE IF days.v <= 180 THEN "1-6 months"
    ELSE "More than 6 months"

valid_onboarding_mask(row, remarks) ==
    /\ remarks # "Already Registered"
    /\ ~IsNa(row.reg)
    /\ ~IsNa(row.open)
    /\ Ge(row.reg, row.open)

mob_valid_onboarding_mask(row) ==
    ~IsNa(row.reg) /\ ~IsNa(row.open) /\ Ge(row.reg, row.open)

\* login_date >= current_date - pd.Timedelta(days=n), on the timestamps
LoginSince(login_date, now, n) == Ticks(login_date) >= Ticks(now) - n * TicksPerDay

get_login_bracket(login_date, registration_date, now) ==
    IF IsNa(login_date)
    THEN (IF ~IsNa(registration_date) THEN "More than a Year" ELSE "Not Registered")
    ELSE IF LoginSince(login_date, now, 30) THEN "Last 30 Days"
    ELSE IF LoginSince(login_date, now, 90) THEN "Last 90 Days"
    ELSE IF LoginSince(login_date, now, 365) THEN "Previous Year"
    ELSE "More than a Year"

get_login_frequency(days) ==
    IF days.na THEN "No Login"
    ELSE IF days.v <= 7 THEN "Weekly"
    ELSE IF days.v <= 30 THEN "Monthly"
    ELSE IF days.v <= 90 THEN "Quarterly"
    ELSE "Inactive"

\* Login_Frequency, 'No Login' turned into 'Not Registered' where the remarks
\* say so
LoginFrequency(days, remarks) ==
    IF get_login_frequency(days) = "No Login" /\ remarks = "Not Registered"
    THEN "Not Registered"
    ELSE get_login_frequency(days)

OnboardingColumns(path, row, now, remarks, mask) ==
    LET days == IF mask THEN TimedeltaDays(row.reg, row.open) ELSE NaN
        Days_Since_Last_Login == TimedeltaDays(now, row.last)
    IN  [path |-> path,
         status |-> remarks,
         days_to_onboard |-> days,
         bracket |-> IF remarks = "Already Registered" THEN "Already Registered"
                     ELSE IF mask THEN get_onboarding_bracket(days)
                     ELSE "Not Registered",
         days_since |-> Days_Since_Last_Login,
         activity |-> LoginFrequency(Days_Since_Last_Login, remarks),
         login_bracket |-> get_login_bracket(row.last, row.reg, now)]

process_data(row, now) ==
    LET remarks == UpdateRemarks(row)
    IN  OnboardingColumns("streamlit_app", row, now, remarks,
                          valid_onboarding_mask(row, remarks))

mob_process_data(row, now) ==
    OnboardingColumns("mob_adoption_dashboard", row, now, UpdateRemarks(row),
                      mob_valid_onboarding_mask(row))

(***************************************************************************)
(* streamlit_app.py, calculate_summary_metrics: Monthly Cohort Analysis    *)
(***************************************************************************)
\* Open_Month: pd.to_datetime(Open_Date_).dt.to_period('M'); NaT for a NaT
\* open date
OpenMonth(row) == <<row.open.year, row.open.month>>

\* Registration_Date.notna() & ((Registration_Date - Open_Date_).dt.days <= n);
\* the comparison is False on NaN
registered_within(row, n) ==
    /\ ~IsNa(row.reg)
    /\ ~TimedeltaDays(row.reg, row.open).na
    /\ TimedeltaDays(row.reg, row.open).v <= n

\* ntb_reg_tbl_df[ntb_reg_tbl_df['Open_Month'] == month]; NaT equals nothing
CohortOf(frame, month) ==
    SelectSeq(frame, LAMBDA row : ~IsNa(row.open) /\ OpenMonth(row) = month)

(***************************************************************************)
(* Rates.  A float is an exact fraction n/d (d > 0), NaN, or an infinity   *)
(* (n is its sign).                                                         *)
(***************************************************************************)
Frac(n, d) == [kind |-> "num", n |-> n, d |-> d]

FloatNaN == [kind |-> "nan", n |-> 0, d |-> 1]

FloatInf(sign) == [kind |-> "inf", n |-> sign, d |-> 1]

\* the integer nearest to n/d (d > 0), a tie going to the even one
RoundHalfEven(n, d) ==
    LET q == n \div d
        r == n - q * d
    IN  IF 2 * r < d THEN q
        ELSE IF 2 * r > d THEN q + 1
        ELSE IF q % 2 = 0 THEN q ELSE q + 1

\* c / p * 100 on numpy integers or on Series: a zero divisor gives inf, or
\* NaN for 0/0, with a warning and no exception
NumpyPercent(c, p) ==
    IF p = 0 THEN (IF c = 0 THEN FloatNaN ELSE FloatInf(1))
    ELSE Frac(100 * c, p)

\* (c / p * 100) if p > 0 else 0
GuardedPercent(c, p) == IF p > 0 THEN Frac(100 * c, p) ELSE Frac(0, 1)

\* .round(1)
Round1(x) == IF x.kind = "num" THEN Frac(RoundHalfEven(10 * x.n, x.d), 10) ELSE x

\* 100 - x
HundredMinus(x) ==
    CASE x.kind = "num" -> Frac(100 * x.d - x.n, x.d)
      [] x.kind = "inf" -> FloatInf(0 - x.n)
      [] OTHER -> x

Rate(den, value) == [den |-> den, value |-> value]

NoJourney == [count |-> <<>>, conversion_rate |-> <<>>, drop_off |-> <<>>]

Returned(fn, rates, journey) ==
    [fn |-> fn, raised |-> "", rates |-> rates, journey |-> journey]

Raised(fn, exception) ==
    [fn |-> fn, raised |-> exception, rates |-> <<>>, journey |-> NoJourney]

(***************************************************************************)
(* streamlit_app.py (and mob_adoption_dashboard.py), calculate_summary_    *)
(* metrics: the summary rates and the Customer Journey funnel               *)
(***************************************************************************)
\* the rate taken against the first stage instead of the stage before
ConversionRateOfFirstStage(count, i) ==
    IF i = 1 THEN Frac(100, 1)
    ELSE Round1(NumpyPercent(count[i], count[1]))

ConversionRate(count, i) ==
    IF i = 1 THEN Frac(100, 1)
    ELSE Round1(NumpyPercent(count[i], count[i - 1]))

customer_journey(c) ==
    LET count == <<c.total, c.registered, c.active_30, c.weekly>>
        conversion == [i \in 1..Len(count) |-> ConversionRate(count, i)]
    IN  [count |-> count,
         conversion_rate |-> conversion,
         drop_off |-> [i \in 1..Len(count) |-> HundredMinus(conversion[i])]]

calculate_summary_metrics(c) ==
    Returned("calculate_summary_metrics",
        <<Rate(c.total, NumpyPercent(c.registered, c.total)),
          Rate(c.registered, GuardedPercent(c.active_30, c.registered))>>,
        customer_journey(c))

(***************************************************************************)
(* ytd_comparison_dashboard.py, tab4: funnel_comparison                     *)
(***************************************************************************)
funnel_comparison(c) ==
    Returned("funnel_comparison",
        <<Rate(c.total, GuardedPercent(c.eligible, c.total)),
          Rate(c.eligible, GuardedPercent(c.registered, c.eligible)),
          Rate(c.registered, GuardedPercent(c.active_30, c.registered))>>,
        NoJourney)

(***************************************************************************)
(* excel_export_utility.py, ExcelExporter._create_funnel_data: the counts  *)
(* are Python ints, and Percentage_of_Total divides by total unguarded      *)
(***************************************************************************)
create_funnel_data(c) ==
    IF c.total = 0 THEN Raised("_create_funnel_data", "ZeroDivisionError")
    ELSE Returned("_create_funnel_data",
        <<Rate(c.total, Frac(100 * c.eligible, c.total)),
          Rate(c.total, Frac(100 * c.registered, c.total)),
          Rate(c.total, Frac(100 * c.active_30, c.total)),
          Rate(c.total, Frac(100 * c.weekly, c.total)),
          Rate(c.total, Frac(100 * c.eligible, c.total)),
          Rate(c.eligible, GuardedPercent(c.registered, c.eligible)),
          Rate(c.registered, GuardedPercent(c.active_30, c.registered)),
          Rate(c.active_30, GuardedPercent(c.weekly, c.active_30))>>,
        NoJourney)

(***************************************************************************)
(* The counts the rate computations are run on: each stage counts a subset *)
(* of the rows, and the weekly active rows are among the 30-day active ones *)
(***************************************************************************)
MaxCount == 3

Scenario3 ==
    [total |-> 1000, eligible |-> 1000, registered |-> 600,
     active_30 |-> 300, weekly |-> 90]

CountInputs ==
    {c \in [total : 0..MaxCount, eligible : 0..MaxCount, registered : 0..MaxCount,
            active_30 : 0..MaxCount, weekly : 0..MaxCount] :
        /\ c.eligible <= c.total
        /\ c.registered <= c.total
        /\ c.active_30 <= c.total
        /\ c.weekly <= c.active_30}
    \cup {Scenario3}

NoCounts ==
    [total |-> 0, eligible |-> 0, registered |-> 0, active_30 |-> 0, weekly |-> 0]

NoMetrics == Returned("none", <<>>, NoJourney)

InitMetrics ==
    /\ counts \in CountInputs
    /\ metrics = NoMetrics
    /\ raw = NoRow
    /\ derived = NotDerived
    /\ current_date = NaT
    /\ monthly_cohorts = EmptyDict
    /\ IdleYtd
    /\ IdleScan
    /\ IdleRun
    /\ IdleSession

CalculateSummaryMetrics ==
    /\ metrics.fn = "none"
    /\ metrics' = calculate_summary_metrics(counts)
    /\ UNCHANGED <<counts, deriveVars, ytdVars, scanVars, runVars, sessionVars>>

FunnelComparison ==
    /\ metrics.fn = "none"
    /\ metrics' = funnel_comparison(counts)
    /\ UNCHANGED <<counts, deriveVars, ytdVars, scanVars, runVars, sessionVars>>

CreateFunnelData ==
    /\ metrics.fn = "none"
    /\ metrics' = create_funnel_data(counts)
    /\ UNCHANGED <<counts, deriveVars, ytdVars, scanVars, runVars, sessionVars>>

NextMetrics ==
    \/ CalculateSummaryMetrics
    \/ FunnelComparison
    \/ CreateFunnelData

SpecMetrics == InitMetrics /\ [][NextMetrics]_vars

(***************************************************************************)
(* Claims about the rates and the funnel                                    *)
(***************************************************************************)
\* C5: whenever the denominator of a rate is zero, the reported rate is an
\* explicit undefined value (never 0, never 100), and the computation raises
\* no division error.
C5_ZeroDenominatorRateIsNull ==
    /\ metrics.raised = ""
    /\ \A i \in DOMAIN metrics.rates :
          metrics.rates[i].den = 0 => metrics.rates[i].value.kind = "nan"

Abs(x) == IF x < 0 THEN 0 - x ELSE x

IsNumber(x, k) == x.kind = "num" /\ x.n = k * x.d

AreNumbers(xs, ks) ==
    Len(xs) = Len(ks) /\ \A i \in 1..Len(ks) : IsNumber(xs[i], ks[i])

\* x is c/p*100 exactly
IsExactPercent(x, c, p) == x.kind = "num" /\ x.n * p = 100 * c * x.d

\* x is a multiple of 0.1 nearest to c/p*100
IsNearestTenthPercent(x, c, p) ==
    x.kind = "num" /\ x.d = 10 /\ 2 * Abs(x.n * p - 1000 * c) <= p

\* y is 100 - x
IsHundredMinus(y, x) ==
    CASE x.kind = "num" -> y.kind = "num" /\ y.n * x.d + x.n * y.d = 100 * x.d * y.d
      [] x.kind = "inf" -> y.kind = "inf" /\ y.n = 0 - x.n
      [] OTHER -> y.kind = "nan"

JourneyOfCounts ==
    metrics.journey.count
        = <<counts.total, counts.registered, counts.active_30, counts.weekly>>

OpenStamps ==
    {NaT, Stamp(2024, 1, 1, 0), Stamp(2024, 1, 1, 1)}

RegStamps ==
    {NaT,
     Stamp(2023, 12, 20, 0), Stamp(2024, 1, 1, 0), Stamp(2024, 1, 1, 1),
     Stamp(2024, 1, 4, 0), Stamp(2024, 1, 6, 1), Stamp(2024, 1, 7, 0),
     Stamp(2024, 1, 12, 0), Stamp(2024, 2, 1, 0), Stamp(2024, 6, 30, 0)}

\* "nan": the cell is empty in the input
RemarkCells == {"Registered", "Not Registered", "Already Registered", "nan"}

\* the instants of pd.Timestamp.now(): 2025-01-01, 12:00 and 00:00
Nows == {Stamp(2025, 1, 1, 1), Stamp(2025, 1, 1, 0)}

\* last transaction or login: none, or 0, 7, 7.5, 8, 14, 15, 30, 30.5, 31, 90,
\* 91, 180, 181, 365, 366 days before 2025-01-01 12:00
LastStamps ==
    {NaT, Stamp(2025, 1, 1, 1), Stamp(2024, 12, 25, 1),
     Stamp(2024, 12, 25, 0), Stamp(2024, 12, 24, 1), Stamp(2024, 12, 18, 1),
     Stamp(2024, 12, 17, 1), Stamp(2024, 12, 2, 1), Stamp(2024, 12, 2, 0),
     Stamp(2024, 12, 1, 1), Stamp(2024, 10, 3, 1), Stamp(2024, 10, 2, 1),
     Stamp(2024, 7, 5, 1), Stamp(2024, 7, 4, 1), Stamp(2024, 1, 2, 1),
     Stamp(2024, 1, 1, 1)}

RawRows ==
    [open : OpenStamps, reg : RegStamps, last : LastStamps, remarks : RemarkCells]

InitDerive ==
    /\ raw \in RawRows
    /\ current_date \in Nows
    /\ derived = NotDerived
    /\ monthly_cohorts = EmptyDict
    /\ counts = NoCounts
    /\ metrics = NoMetrics
    /\ IdleYtd
    /\ IdleScan
    /\ IdleRun
    /\ IdleSession

PreprocessData ==
    /\ derived.path = "none"
    /\ derived' = preprocess_data(raw, current_date)
    /\ UNCHANGED <<raw, current_date, monthly_cohorts, metricVars, ytdVars, scanVars, runVars, sessionVars>>

ProcessForYtd ==
    /\ derived.path = "none"
    /\ derived' = process_for_ytd(raw, current_date)
    /\ UNCHANGED <<raw, current_date, monthly_cohorts, metricVars, ytdVars, scanVars, runVars, sessionVars>>

ProcessData ==
    /\ derived.path = "none"
    /\ derived' = process_data(raw, current_date)
    /\ UNCHANGED <<raw, current_date, monthly_cohorts, metricVars, ytdVars, scanVars, runVars, sessionVars>>

MobProcessData ==
    /\ derived.path = "none"
    /\ derived' = mob_process_data(raw, current_date)
    /\ UNCHANGED <<raw, current_date, monthly_cohorts, metricVars, ytdVars, scanVars, runVars, sessionVars>>

\* the metrics dict of one cohort, with the two rate columns added to
\* monthly_cohort_df
CohortMetrics(frame, month) ==
    LET cohort == CohortOf(frame, month)
        Registered_30d ==
            Len(SelectSeq(cohort, LAMBDA row : registered_within(row, 30)))
        Registered_90d ==
            Len(SelectSeq(cohort, LAMBDA row : registered_within(row, 90)))
    IN  [Total_Accounts |-> Len(cohort),
         Registered_30d |-> Registered_30d,
         Registered_90d |-> Registered_90d,
         Registration_Rate_30d |-> Round1(NumpyPercent(Registered_30d, Len(cohort))),
         Registration_Rate_90d |-> Round1(NumpyPercent(Registered_90d, Len(cohort)))]

\* for month in sorted(ntb_reg_tbl_df['Open_Month'].unique()), keyed by
\* Cohort_Month
MonthlyCohorts(frame) ==
    [month \in {OpenMonth(frame[i]) : i \in DOMAIN frame} |->
        CohortMetrics(frame, month)]

\* calculate_summary_metrics on the frame process_data returned, here the
\* frame of the one derived row: its Monthly Cohort Analysis (the rates it
\* computes from the row counts are CalculateSummaryMetrics)
MonthlyCohortAnalysis ==
    /\ derived.path = "streamlit_app"
    /\ monthly_cohorts = EmptyDict
    /\ monthly_cohorts' = MonthlyCohorts(<<raw>>)
    /\ UNCHANGED <<raw, derived, current_date, metricVars, ytdVars, scanVars, runVars, sessionVars>>

NextDerive ==
    \/ PreprocessData
    \/ ProcessForYtd
    \/ ProcessData
    \/ MobProcessData
    \/ MonthlyCohortAnalysis

SpecDerive == InitDerive /\ [][NextDerive]_vars

(***************************************************************************)
(* Claims about the derivation of one record                                *)
(***************************************************************************)
\* the precedence rule stated on the two timestamps alone
StatusByTimestamps(row) ==
    IF IsNa(row.reg) THEN "Not Registered"
    ELSE IF ~IsNa(row.open) /\ Ticks(row.reg) < Ticks(row.open)
         THEN "Already Registered"
    ELSE "Registered"

\* C2: for every record, on every code path, the registration status is the
\* one the two timestamps alone give: null registration date -> Not
\* Registered; else registration strictly earlier than opening -> Already
\* Registered; else (equal dates included) -> Registered.
C2_StatusFromTimestampsAlone ==
    derived.path # "none" => derived.status = StatusByTimestamps(raw)

\* C8: after derivation a record carries a days-to-onboard value if and only
\* if its registration status is Registered (so no negative value is stored);
\* stated for the rows with an open date that inet_dashboard.py's
\* preprocess_data derives.
C8_DaysToOnboardIffRegistered ==
    (derived.path = "inet_dashboard" /\ ~IsNa(raw.open)) =>
        (~derived.days_to_onboard.na <=> derived.status = "Registered")

\* C9: after derivation, on every path that derives an onboarding bracket,
\* the bracket is 'Already Registered' if and only if the registration status
\* is 'Already Registered'.
C9_BracketAlreadyRegisteredIffStatus ==
    derived.path \in {"inet_dashboard", "streamlit_app", "mob_adoption_dashboard"} =>
        (derived.bracket = "Already Registered"
            <=> derived.status = "Already Registered")

\* C10: a record whose account-open date is null or unparseable is never
\* assigned a registration status or an onboarding bracket; stated for the
\* rows derived by inet_dashboard.py's preprocess_data.
C10_NullOpenDateNeverClassified ==
    (derived.path = "inet_dashboard" /\ IsNa(raw.open)) =>
        /\ derived.status \notin {"Registered", "Not Registered", "Already Registered"}
        /\ derived.bracket \in {"None", "NoColumn"}

\* C11: every derived record has exactly one registration status, one
\* onboarding bracket and one activity bracket, each a label of the value
\* set: for a record with an open date, the bracket columns that
\* preprocess_data of inet_dashboard.py fills are never null (None) and never
\* 'Unknown'.
C11_EveryRecordClassified ==
    (derived.path = "inet_dashboard" /\ ~IsNa(raw.open)) =>
        /\ derived.status \in {"Registered", "Already Registered", "Not Registered"}
        /\ derived.bracket \in
               {"Within 1 week", "Within 15 days", "15-30 days", "Within 2 months",
                "Within 3 months", "Within 6 months", "More than 6 months"}
        /\ derived.activity \in
               {"Weekly Active", "Biweekly Active", "Monthly Active",
                "3 Months Active", "6 Months Active", "1 Year Active",
                "More than 1 Year"}

\* the onboarding bracket of the documented ladder for d whole days
DocumentedOnboardingBracket(d) ==
    IF d <= 5 THEN "<=5d"
    ELSE IF d <= 10 THEN "6-10d"
    ELSE IF d <= 30 THEN "11-30d"
    ELSE IF d <= 180 THEN "1-6mo"
    ELSE ">6mo"

\* the labels of the code that lie within a documented onboarding bracket,
\* whichever dashboard spells them
OnboardingLabels(bracket) ==
    CASE bracket = "<=5d" -> {"5 days or less", "Within 1 week"}
      [] bracket = "6-10d" -> {"6-10 days", "Within 15 days"}
      [] bracket = "11-30d" -> {"11-30 days", "15-30 days"}
      [] bracket = "1-6mo" ->
             {"1-6 months", "Within 2 months", "Within 3 months", "Within 6 months"}
      [] OTHER -> {"More than 6 months"}

\* C17: for a Registered record with d whole days from account opening to
\* registration, the onboarding bracket is that of the ladder 5/10/30/180
\* (<=5d, 6-10d, 11-30d, 1-6mo, >6mo), in every code path that derives an
\* onboarding bracket.
C17_OnboardingBracketLadder ==
    (/\ derived.path \in {"inet_dashboard", "streamlit_app", "mob_adoption_dashboard"}
     /\ derived.status = "Registered"
     /\ ~derived.days_to_onboard.na) =>
        derived.bracket
            \in OnboardingLabels(DocumentedOnboardingBracket(derived.days_to_onboard.v))

\* the rung of the documented activity ladder for d whole days
DocumentedActivityBracket(d) ==
    IF d <= 7 THEN "Weekly"
    ELSE IF d <= 14 THEN "Biweekly"
    ELSE IF d <= 30 THEN "Monthly"
    ELSE IF d <= 90 THEN "Quarterly"
    ELSE IF d <= 180 THEN "SemiAnnual"
    ELSE IF d <= 365 THEN "Annual"
    ELSE "MoreThanYear"

\* the labels of the code for a documented activity bracket, whichever
\* dashboard spells them
ActivityLabels(bracket) ==
    CASE bracket = "Weekly" -> {"Weekly Active", "Weekly"}
      [] bracket = "Biweekly" -> {"Biweekly Active"}
      [] bracket = "Monthly" -> {"Monthly Active", "Monthly"}
      [] bracket = "Quarterly" -> {"3 Months Active", "Quarterly Active", "Quarterly"}
      [] bracket = "SemiAnnual" -> {"6 Months Active"}
      [] bracket = "Annual" -> {"1 Year Active"}
      [] OTHER -> {"More than 1 Year"}

\* C18: for every record with a last-activity date, the activity bracket is
\* the first rung of the ladder 7/14/30/90/180/365 days whose threshold is
\* >= the whole days between the last activity and the reference time, and
\* MoreThanYear above 365, in every code path that derives an activity
\* bracket.
C18_ActivityBracketLadder ==
    (derived.path # "none" /\ ~IsNa(raw.last)) =>
        /\ derived.days_since = TimedeltaDays(current_date, raw.last)
        /\ derived.activity
               \in ActivityLabels(DocumentedActivityBracket(derived.days_since.v))

(***************************************************************************)
(* The input file of the year-to-date programs.  A row has the columns     *)
(* that these programs read: AC_OPEN_DATE, MOBILE_APP_REGISTRATION_DATE    *)
(* (both already through pd.to_datetime, NaT for an empty or unparseable   *)
(* cell), INET_ELIGIBLE and REGION_DESC ("nan": the cell is empty).        *)
(***************************************************************************)
MaxRows == 3

MaxChunk == 3

FileRow(open, reg, eligible, region) ==
    [open |-> open, reg |-> reg, eligible |-> eligible, region |-> region]

FileRows ==
    {FileRow(Stamp(2023, 3, 1, 0), Stamp(2023, 3, 5, 0), "Y", "North"),
     FileRow(Stamp(2023, 3, 2, 0), NaT, "N", "South"),
     FileRow(Stamp(2023, 7, 19, 0), Stamp(2023, 8, 1, 0), "Y", "South"),
     FileRow(Stamp(2024, 2, 29, 0), Stamp(2024, 3, 1, 0), "Y", "North"),
     FileRow(Stamp(2024, 3, 1, 0), NaT, "Y", "nan"),
     FileRow(Stamp(2024, 3, 1, 1), Stamp(2024, 3, 4, 0), "N", "South"),
     FileRow(Stamp(2024, 7, 18, 0), NaT, "Y", "North"),
     FileRow(NaT, Stamp(2024, 1, 4, 0), "Y", "North")}

Files == UNION {[1..n -> FileRows] : n \in 0..MaxRows}

\* day 61 and day 60 of 2024
ReferenceDates == {Stamp(2024, 3, 1, 0), Stamp(2024, 2, 29, 0)}

Min(a, b) == IF a < b THEN a ELSE b

Count(rows, Test(_)) == Len(SelectSeq(rows, Test))

Get(dict, key, default) == IF key \in DOMAIN dict THEN dict[key] ELSE default

\* chunk['year'].dropna().unique()
YearsOf(rows) ==
    {rows[i].open.year : i \in {j \in DOMAIN rows : ~IsNa(rows[j].open)}}

\* year_ytd['month'].dropna().unique()
MonthsOf(rows) ==
    {rows[i].open.month : i \in {j \in DOMAIN rows : ~IsNa(rows[j].open)}}

\* ['REGION_DESC'].dropna().unique()
RegionsOf(rows) == {rows[i].region : i \in DOMAIN rows} \ {"nan"}

(***************************************************************************)
(* ytd_preprocessor.py, create_ytd_optimized_file: the chunk loop          *)
(***************************************************************************)
\* reference_date.timetuple().tm_yday
reference_doy == DayOfYear(reference_date)

\* chunk['is_registered']
is_registered(row) == ~IsNa(row.reg)

\* (chunk['year'] == year) & (chunk['day_of_year'] <= reference_doy); both
\* comparisons are False on a row whose open date is NaT
InYtdBefore(row, year, doy) ==
    ~IsNa(row.open) /\ row.open.year = year /\ DayOfYear(row.open) < doy

InYtd(row, year, doy) ==
    ~IsNa(row.open) /\ row.open.year = year /\ DayOfYear(row.open) <= doy

year_ytd(chunk, year, doy) == SelectSeq(chunk, LAMBDA row : InYtd(row, year, doy))

NewYearStats ==
    [total_customers |-> 0, eligible |-> 0, registered |-> 0,
     by_month |-> EmptyDict, by_region |-> EmptyDict]

NewRegionStats == [total |-> 0, registered |-> 0]

Overwrite(old, n) == n

\* counter += n
Accumulate(old, n) == old + n

\* the monthly breakdown left as it was
SkipByMonth(by_month, rows) == by_month

UpdateByMonth(by_month, rows) ==
    [month \in DOMAIN by_month \cup MonthsOf(rows) |->
        IF month \in MonthsOf(rows)
        THEN Accumulate(Get(by_month, month, 0),
                        Count(rows, LAMBDA row : row.open.month = month))
        ELSE by_month[month]]

UpdateByRegion(by_region, rows) ==
    [region \in DOMAIN by_region \cup RegionsOf(rows) |->
        IF region \in RegionsOf(rows)
        THEN LET old == Get(by_region, region, NewRegionStats)
                 region_data == SelectSeq(rows, LAMBDA row : row.region = region)
             IN  [total |-> Accumulate(old.total, Len(region_data)),
                  registered |->
                      Accumulate(old.registered, Count(region_data, is_registered))]
        ELSE by_region[region]]

UpdateYearStats(stats, rows) ==
    [total_customers |-> Accumulate(stats.total_customers, Len(rows)),
     eligible |->
         Accumulate(stats.eligible, Count(rows, LAMBDA row : row.eligible = "Y")),
     registered |-> Accumulate(stats.registered, Count(rows, is_registered)),
     by_month |-> UpdateByMonth(stats.by_month, rows),
     by_region |-> UpdateByRegion(stats.by_region, rows)]

\* the years of the chunk for which len(year_ytd) > 0
YtdYears(chunk, doy) ==
    {year \in YearsOf(chunk) : Len(year_ytd(chunk, year, doy)) > 0}

\* summary_stats after the loop body has run on one chunk
SummaryAfter(stats, chunk, doy) ==
    [year \in DOMAIN stats \cup YtdYears(chunk, doy) |->
        IF year \in YtdYears(chunk, doy)
        THEN UpdateYearStats(Get(stats, year, NewYearStats),
                             year_ytd(chunk, year, doy))
        ELSE stats[year]]

\* ytd_data after the loop body has run on one chunk: ytd_data[year] is the
\* list of the year_ytd frames of the chunks seen so far
YtdDataAfter(data, chunk, doy) ==
    [year \in DOMAIN data \cup YtdYears(chunk, doy) |->
        IF year \in YtdYears(chunk, doy)
        THEN Append(Get(data, year, <<>>), year_ytd(chunk, year, doy))
        ELSE data[year]]

\* the next chunk pd.read_csv(input_file, chunksize=chunk_size) yields; the
\* reader of a file without data rows yields one empty chunk
NextChunk ==
    SubSeq(file, rows_processed + 1, Min(rows_processed + chunk_size, Len(file)))

\* the reader has no chunk left after NextChunk
LastChunk == rows_processed + Len(NextChunk) = Len(file)

\* the loop body on one chunk; total_rows is the number of data rows, and
\* the progress line rows_processed / total_rows raises on a file without any
ReadChunk ==
    /\ prog = "create_ytd_optimized_file"
    /\ pc = "scan"
    /\ summary_stats' = SummaryAfter(summary_stats, NextChunk, reference_doy)
    /\ ytd_data' = YtdDataAfter(ytd_data, NextChunk, reference_doy)
    /\ rows_processed' = rows_processed + Len(NextChunk)
    /\ pc' = IF Len(file) = 0 THEN "ZeroDivisionError"
             ELSE IF LastChunk THEN "save" ELSE "scan"
    /\ UNCHANGED <<prog, file, reference_date, chunk_size, daily_patterns,
                   selection, comparisons, outputs, deriveVars, metricVars, scanVars, runVars, sessionVars>>

(***************************************************************************)
(* Year-over-year comparisons and output files                              *)
(***************************************************************************)
Comparison(by, prev_year, curr_year, prev_total, curr_total, growth) ==
    [by |-> by, prev_year |-> prev_year, curr_year |-> curr_year,
     prev_total |-> prev_total, curr_total |-> curr_total, growth |-> growth]

\* an output file; complete is FALSE when an exception ended the writing of it
Output(name, year, complete) == [name |-> name, year |-> year, complete |-> complete]

\* (years[i-1], years[i]) for i in range(1, len(years)), years sorted
ConsecutiveYears(years) ==
    {pair \in years \X years :
        /\ pair[1] < pair[2]
        /\ ~\E year \in years : pair[1] < year /\ year < pair[2]}

\* sorted(years)[-n:]
RecentYears(years, n) ==
    {year \in years : Cardinality({later \in years : later > year}) < n}

\* (curr - prev) / prev * 100, prev # 0
Growth(curr, prev) == Frac(100 * (curr - prev), prev)

\* round(x, 2)
Round2(x) == IF x.kind = "num" THEN Frac(RoundHalfEven(100 * x.n, x.d), 100) ELSE x

\* ((curr - prev) / prev * 100) if prev > 0 else 0
GuardedGrowth(curr, prev) == IF prev > 0 THEN Growth(curr, prev) ELSE Frac(0, 1)

(***************************************************************************)
(* ytd_preprocessor.py, create_ytd_comparison_file: pivot of an empty      *)
(* frame raises KeyError; a Growth cell is set only when prev_total > 0     *)
(***************************************************************************)
create_ytd_comparison_file(stats) ==
    IF DOMAIN stats = {}
    THEN [raised |-> "KeyError", comparisons |-> {}, outputs |-> {}]
    ELSE [raised |-> "",
          comparisons |->
              {Comparison("create_ytd_comparison_file", pair[1], pair[2],
                          stats[pair[1]].total_customers,
                          stats[pair[2]].total_customers,
                          Round2(Growth(stats[pair[2]].total_customers,
                                        stats[pair[1]].total_customers))) :
                  pair \in {q \in ConsecutiveYears(DOMAIN stats) :
                               stats[q[1]].total_customers > 0}},
          outputs |-> {Output("ytd_comparison_csv", 0, TRUE),
                       Output("ytd_monthly_comparison_csv", 0, TRUE)}]

(***************************************************************************)
(* ytd_preprocessor.py, create_ytd_optimized_file after the chunk loop:    *)
(* the yearly files are written, then the summary.  The eligible and       *)
(* registered counters of a year are numpy int64 (0 + Series.sum()), which *)
(* json.dump cannot serialise: it raises TypeError as soon as the summary  *)
(* has a year, leaving the summary file incomplete.                         *)
(***************************************************************************)
SaveYtdData ==
    /\ prog = "create_ytd_optimized_file"
    /\ pc = "save"
    /\ LET yearly == {Output("ytd_csv", year, TRUE) : year \in DOMAIN ytd_data}
           compare == create_ytd_comparison_file(summary_stats)
       IN  IF DOMAIN summary_stats # {}
           THEN /\ outputs' = yearly \cup {Output("ytd_summary_json", 0, FALSE)}
                /\ comparisons' = {}
                /\ pc' = "TypeError"
           ELSE /\ outputs' =
                       yearly \cup {Output("ytd_summary_json", 0, TRUE)}
                              \cup compare.outputs
                /\ comparisons' = compare.comparisons
                /\ pc' = IF compare.raised = "" THEN "done" ELSE compare.raised
    /\ UNCHANGED <<prog, file, reference_date, chunk_size, rows_processed,
                   summary_stats, ytd_data, daily_patterns, selection,
                   deriveVars, metricVars, scanVars, runVars, sessionVars>>

(***************************************************************************)
(* ytd_preprocessor.py, analyze_ytd_patterns; reference_date is now         *)
(***************************************************************************)
years_to_analyze == 3

RECURSIVE SumOver(_, _)
SumOver(dict, keys) ==
    IF keys = {} THEN 0
    ELSE LET key == CHOOSE k \in keys : TRUE
         IN  dict[key] + SumOver(dict, keys \ {key})

\* sum(daily_data.values())
SumValues(dict) == SumOver(dict, DOMAIN dict)

\* chunk['year'] is float64 when some open date of the chunk is NaT, and an
\* integer dtype otherwise
HasNaT(chunk) == \E i \in DOMAIN chunk : IsNa(chunk[i].open)

OnDay(row, year, doy) ==
    ~IsNa(row.open) /\ row.open.year = year /\ DayOfYear(row.open) = doy

\* the days of daily_counts that pass doy <= current_doy
YtdDays(chunk, year, current_doy) ==
    {doy \in 1..current_doy : \E i \in DOMAIN chunk : OnDay(chunk[i], year, doy)}

\* daily_patterns after the loop body has run on one chunk; a key keeps the
\* type it was first inserted with
PatternsAfter(patterns, chunk, current_doy) ==
    LET recent_years == RecentYears(YearsOf(chunk), years_to_analyze)
    IN  [year \in DOMAIN patterns \cup recent_years |->
            IF year \in recent_years
            THEN LET old == Get(patterns, year,
                                [float_key |-> HasNaT(chunk), days |-> EmptyDict])
                     days == YtdDays(chunk, year, current_doy)
                 IN  [float_key |-> old.float_key,
                      days |->
                          [doy \in DOMAIN old.days \cup days |->
                              IF doy \in days
                              THEN Get(old.days, doy, 0)
                                   + Count(chunk, LAMBDA row : OnDay(row, year, doy))
                              ELSE old.days[doy]]]
            ELSE patterns[year]]

AnalyzeChunk ==
    /\ prog = "analyze_ytd_patterns"
    /\ pc = "scan"
    /\ daily_patterns' = PatternsAfter(daily_patterns, NextChunk, reference_doy)
    /\ rows_processed' = rows_processed + Len(NextChunk)
    /\ pc' = IF LastChunk THEN "report" ELSE "scan"
    /\ UNCHANGED <<prog, file, reference_date, chunk_size, summary_stats, ytd_data,
                   selection, comparisons, outputs, deriveVars, metricVars, scanVars, runVars, sessionVars>>

\* a total is the Python int 0 for a year without a YTD day and a numpy
\* int64 > 0 otherwise: x / 0 is inf on a numpy int64 and ZeroDivisionError
\* on Python ints
ReportGrowth(curr, prev) == IF prev = 0 THEN FloatInf(1) ELSE Growth(curr, prev)

\* the report: the totals, the growth lines up to the first one that raises,
\* the peak days, where datetime(year, 1, 1) raises TypeError on a float year
WriteReport ==
    /\ prog = "analyze_ytd_patterns"
    /\ pc = "report"
    /\ LET ytd_totals ==
               [year \in DOMAIN daily_patterns |-> SumValues(daily_patterns[year].days)]
           pairs == ConsecutiveYears(DOMAIN ytd_totals)
           raising ==
               {pair \in pairs : ytd_totals[pair[1]] = 0 /\ ytd_totals[pair[2]] = 0}
           written == {pair \in pairs : \A r \in raising : pair[2] < r[2]}
           result ==
               IF raising # {} THEN "ZeroDivisionError"
               ELSE IF \E year \in DOMAIN daily_patterns :
                           /\ daily_patterns[year].float_key
                           /\ DOMAIN daily_patterns[year].days # {}
                    THEN "TypeError"
                    ELSE "done"
       IN  /\ comparisons' =
                  {Comparison("analyze_ytd_patterns", pair[1], pair[2],
                              ytd_totals[pair[1]], ytd_totals[pair[2]],
                              ReportGrowth(ytd_totals[pair[2]], ytd_totals[pair[1]])) :
                      pair \in written}
           /\ outputs' = {Output("ytd_analysis_report", 0, result = "done")}
           /\ pc' = result
    /\ UNCHANGED <<prog, file, reference_date, chunk_size, rows_processed,
                   summary_stats, ytd_data, daily_patterns, selection,
                   deriveVars, metricVars, scanVars, runVars, sessionVars>>

(***************************************************************************)
(* ytd_comparison_dashboard.py: one run of the script on the loaded file,  *)
(* with the sidebar selection of years and region                            *)
(***************************************************************************)
\* (df['AC_OPEN_YEAR'] == year) & (df['AC_OPEN_DOY'] <= reference_doy), then
\* REGION_DESC == selected_region unless 'All' is selected
ytd_filter(rows, year, doy, region) ==
    SelectSeq(rows, LAMBDA row :
        /\ ~IsNa(row.open)
        /\ row.open.year = year
        /\ DayOfYear(row.open) <= doy
        /\ (region = "All" \/ row.region = region))

RunYtdDashboard ==
    /\ prog = "ytd_comparison_dashboard"
    /\ \E selected_years \in SUBSET YearsOf(file),
          selected_region \in {"All"} \cup RegionsOf(file) :
          LET data == [year \in selected_years |->
                          ytd_filter(file, year, reference_doy, selected_region)]
              pairs == ConsecutiveYears(selected_years)
          IN  /\ selection' = [years |-> selected_years, region |-> selected_region]
              /\ ytd_data' = data
              /\ IF selected_years = {}
                 THEN \* st.columns(0)
                      /\ comparisons' = {}
                      /\ pc' = "StreamlitAPIException"
                 ELSE /\ comparisons' =
                             {Comparison(by, pair[1], pair[2],
                                         Len(data[pair[1]]), Len(data[pair[2]]),
                                         GuardedGrowth(Len(data[pair[2]]),
                                                       Len(data[pair[1]]))) :
                                 by \in {"header_metrics", "growth_data"},
                                 pair \in pairs}
                      /\ pc' = "done"
    /\ UNCHANGED <<prog, file, reference_date, chunk_size, rows_processed,
                   summary_stats, daily_patterns, outputs, deriveVars, metricVars, scanVars, runVars, sessionVars>>

(***************************************************************************)
(* inet_dashboard_enhanced.py, tab6: the two most recent open years of the *)
(* whole file, every month of each                                           *)
(***************************************************************************)
\* monthly_counts[monthly_counts['AC_OPEN_YEAR'] == year]['Count'].sum()
YearTotal(rows, year) ==
    Count(rows, LAMBDA row : ~IsNa(row.open) /\ row.open.year = year)

RunEnhancedTab6 ==
    /\ prog = "inet_dashboard_enhanced"
    /\ pc = "start"
    /\ LET available_years == YearsOf(file)
       IN  comparisons' =
               IF Cardinality(available_years) >= 2
               THEN {Comparison("tab6", pair[1], pair[2],
                                YearTotal(file, pair[1]), YearTotal(file, pair[2]),
                                GuardedGrowth(YearTotal(file, pair[2]),
                                              YearTotal(file, pair[1]))) :
                        pair \in ConsecutiveYears(RecentYears(available_years, 2))}
               ELSE {}
    /\ pc' = "done"
    /\ UNCHANGED <<prog, file, reference_date, chunk_size, rows_processed,
                   summary_stats, ytd_data, daily_patterns, selection, outputs,
                   deriveVars, metricVars, scanVars, runVars, sessionVars>>

(***************************************************************************)
(* The year-to-date programs run on a file                                   *)
(***************************************************************************)
\* for analyze_ytd_patterns also the files of one account a year, opened on
\* January 15, over one year more than years_to_analyze, in any order
YearRows == {FileRow(Stamp(year, 1, 15, 0), NaT, "Y", "North") :
                year \in (2024 - years_to_analyze)..2024}

PatternFiles ==
    {rows \in [1..(years_to_analyze + 1) -> YearRows] :
        \A i, j \in DOMAIN rows : i # j => rows[i] # rows[j]}

ChunkedPrograms == {"create_ytd_optimized_file", "analyze_ytd_patterns"}

Dashboards == {"ytd_comparison_dashboard", "inet_dashboard_enhanced"}

InitYtd ==
    /\ prog \in ChunkedPrograms \cup Dashboards
    /\ file \in IF prog = "analyze_ytd_patterns" THEN Files \cup PatternFiles ELSE Files
    /\ reference_date \in ReferenceDates
    /\ chunk_size \in IF prog \in ChunkedPrograms THEN 1..MaxChunk ELSE {0}
    /\ rows_processed = 0
    /\ summary_stats = EmptyDict
    /\ ytd_data = EmptyDict
    /\ daily_patterns = EmptyDict
    /\ selection = NoSelection
    /\ comparisons = {}
    /\ outputs = {}
    /\ pc = IF prog \in ChunkedPrograms THEN "scan" ELSE "start"
    /\ IdleScan
    /\ IdleRun
    /\ IdleSession
    /\ raw = NoRow
    /\ derived = NotDerived
    /\ current_date = NaT
    /\ monthly_cohorts = EmptyDict
    /\ counts = NoCounts
    /\ metrics = NoMetrics

NextYtd ==
    \/ ReadChunk
    \/ SaveYtdData
    \/ AnalyzeChunk
    \/ WriteReport
    \/ RunYtdDashboard
    \/ RunEnhancedTab6

SpecYtd == InitYtd /\ [][NextYtd]_vars

(***************************************************************************)
(* Claims about the chunked scan and the year-over-year comparisons         *)
(***************************************************************************)
\* the chunk loop of create_ytd_optimized_file has consumed the whole file
ScanFinished == prog = "create_ytd_optimized_file" /\ pc # "scan"

\* the records of the file opened in the year, on day 1..reference day of
\* that year, in the selected region (every region under 'All')
YtdRecords(year, region) ==
    {i \in DOMAIN file :
        /\ ~IsNa(file[i].open)
        /\ file[i].open.year = year
        /\ DayOfYear(file[i].open) \in 1..DayOfYear(reference_date)
        /\ (region = "All" \/ file[i].region = region)}

\* C1: for a fixed list of records and a fixed reference day of year, the
\* summary statistics that create_ytd_optimized_file has built when the scan
\* is finished (per year: total, eligible, registered, by month, by region)
\* are the same for every chunk size: they equal the summary of the file read
\* as a single chunk.
C1_SummaryIndependentOfChunkSize ==
    ScanFinished =>
        summary_stats = SummaryAfter(EmptyDict, file, DayOfYear(reference_date))

\* a file of three records of one year, all within the reference day, two of
\* them of the same month, scanned in three chunks
C1_Witness ==
    /\ ScanFinished
    /\ chunk_size = 1
    /\ Len(file) = 3
    /\ \E year \in DOMAIN summary_stats :
          /\ summary_stats[year].total_customers = 3
          /\ \E month \in DOMAIN summary_stats[year].by_month :
                summary_stats[year].by_month[month] = 2

\* C3: after all chunks are processed, the YTD total reported for a year is
\* the number of records of the file opened in that year on a day of year
\* between 1 and the reference day R, R included; a year that is not reported
\* has no such record; the rows the YTD dashboard keeps for a selected year
\* are counted the same way (within the selected region).
C3_YtdTotalCountsDaysUpToReference ==
    /\ ScanFinished =>
          /\ \A year \in DOMAIN summary_stats :
                summary_stats[year].total_customers
                    = Cardinality(YtdRecords(year, "All"))
          /\ \A year \in YearsOf(file) \ DOMAIN summary_stats :
                YtdRecords(year, "All") = {}
    /\ (prog = "ytd_comparison_dashboard" /\ pc = "done") =>
          \A year \in selection.years :
              Len(ytd_data[year]) = Cardinality(YtdRecords(year, selection.region))

\* a scan of more than one chunk, of a file with a record opened on the
\* reference day of a reported year and a record of that year opened later
C3_Witness ==
    /\ ScanFinished
    /\ chunk_size < Len(file)
    /\ \E year \in DOMAIN summary_stats :
          /\ \E i \in YtdRecords(year, "All") :
                DayOfYear(file[i].open) = DayOfYear(reference_date)
          /\ \E i \in DOMAIN file :
                /\ ~IsNa(file[i].open)
                /\ file[i].open.year = year
                /\ DayOfYear(file[i].open) > DayOfYear(reference_date)

\* C4: every year-over-year comparison that is output relates counts that
\* were truncated at the same reference day of year R for both years: each of
\* the two totals is the number of that year's records opened on day 1..R.
C4_ComparisonsTruncatedAtSameDay ==
    \A c \in comparisons :
        /\ c.prev_total = Cardinality(YtdRecords(c.prev_year, selection.region))
        /\ c.curr_total = Cardinality(YtdRecords(c.curr_year, selection.region))

\* g is (curr - prev) / prev * 100, to the two decimals it is rounded to
IsGrowthOf(g, curr, prev) ==
    /\ g.kind = "num"
    /\ 200 * Abs(g.n * prev - 100 * (curr - prev) * g.d) <= prev * g.d

\* C7: for every pair of consecutive years the YTD growth rate is
\* (curr - prev) / prev * 100, and when prev = 0 it is reported as undefined
\* (null): not as zero, not as infinity, and no division error is raised.
C7_GrowthRateNullWhenPrevIsZero ==
    /\ ~(prog = "analyze_ytd_patterns" /\ pc = "ZeroDivisionError")
    /\ \A c \in comparisons :
          c.by \in {"create_ytd_comparison_file", "analyze_ytd_patterns",
                    "growth_data"} =>
              IF c.prev_total = 0
              THEN c.growth.kind = "nan"
              ELSE IsGrowthOf(c.growth, c.curr_total, c.prev_total)

\* C15: in the cohort of its open month, a record adds one to Registered_30d
\* exactly if its days_to_onboard is defined (status Registered) and <= 30,
\* and one to Registered_90d exactly if it is defined and <= 90; an Already
\* Registered or Not Registered record adds to neither.  (Taken on rows whose
\* input remark is not itself 'Already Registered'.)
C15_CohortCountsOnboardedRecords ==
    (monthly_cohorts # EmptyDict /\ ~IsNa(raw.open)
         /\ raw.remarks # "Already Registered") =>
        LET cohort == monthly_cohorts[OpenMonth(raw)]
            days == derived.days_to_onboard
        IN  /\ cohort.Total_Accounts = 1
            /\ cohort.Registered_30d = IF ~days.na /\ days.v <= 30 THEN 1 ELSE 0
            /\ cohort.Registered_90d = IF ~days.na /\ days.v <= 90 THEN 1 ELSE 0

\* Series.mean(): the mean of the values that are not null, NaN if there is none
RECURSIVE SumDefined(_)
SumDefined(values) ==
    IF values = <<>> THEN 0
    ELSE (IF Head(values).na THEN 0 ELSE Head(values).v) + SumDefined(Tail(values))

SeriesMean(values) ==
    LET defined == SelectSeq(values, LAMBDA x : ~x.na)
    IN  IF defined = <<>> THEN FloatNaN ELSE Frac(SumDefined(defined), Len(defined))

\* C16: the days-to-onboard value a record of the YTD dashboard or of
\* streamlit_app.py brings into an average (Avg_Days_to_Onboard is the mean
\* of the column over the frame, here the frame of the derived row) is never
\* negative, and an Already Registered record brings none.
C16_NoNegativeOnboardingLatency ==
    derived.path \in {"ytd_comparison_dashboard", "streamlit_app"} =>
        LET Avg_Days_to_Onboard == SeriesMean(<<derived.days_to_onboard>>)
        IN  /\ Avg_Days_to_Onboard.kind = "num" => Avg_Days_to_Onboard.n >= 0
            /\ derived.status = "Already Registered" => Avg_Days_to_Onboard.kind = "nan"

\* C19: a run of create_ytd_optimized_file that has ended either completed
\* every output step (the yearly files, the complete summary file and the
\* comparison files) or ended before any output was written.
C19_OutputsAllOrNothing ==
    (prog = "create_ytd_optimized_file" /\ pc \notin {"scan", "save"}) =>
        \/ outputs = {}
        \/ /\ pc = "done"
           /\ \A output \in outputs : output.complete
           /\ \A name \in {"ytd_summary_json", "ytd_comparison_csv"} :
                  \E output \in outputs : output.name = name

\* the chunk the reader yields after NextChunk
FollowingChunk ==
    SubSeq(file, rows_processed + Len(NextChunk) + 1,
           Min(rows_processed + Len(NextChunk) + chunk_size, Len(file)))

\* the partial aggregate of one chunk: the summary the loop body builds from
\* an empty one
Partial(chunk) == SummaryAfter(EmptyDict, chunk, DayOfYear(reference_date))

\* key-wise union of two dictionaries of counters, adding on colliding keys
MergeCounts(a, b) ==
    [key \in DOMAIN a \cup DOMAIN b |-> Get(a, key, 0) + Get(b, key, 0)]

MergeRegions(a, b) ==
    [region \in DOMAIN a \cup DOMAIN b |->
        [total |->
             Get(a, region, NewRegionStats).total + Get(b, region, NewRegionStats).total,
         registered |->
             Get(a, region, NewRegionStats).registered
                 + Get(b, region, NewRegionStats).registered]]

Merge(a, b) ==
    [year \in DOMAIN a \cup DOMAIN b |->
        LET x == Get(a, year, NewYearStats)
            y == Get(b, year, NewYearStats)
        IN  [total_customers |-> x.total_customers + y.total_customers,
             eligible |-> x.eligible + y.eligible,
             registered |-> x.registered + y.registered,
             by_month |-> MergeCounts(x.by_month, y.by_month),
             by_region |-> MergeRegions(x.by_region, y.by_region)]]

\* C13: while create_ytd_optimized_file scans, folding the next chunk into
\* the running summary is the key-wise union, with addition of the counters,
\* of the summary and the chunk's partial aggregate; folding the next two
\* chunks in either order gives the same summary, and so does merging their
\* partial aggregates first (the merge is associative and commutative).
C13_MergeAssociativeCommutative ==
    (prog = "create_ytd_optimized_file" /\ pc = "scan") =>
        LET doy == DayOfYear(reference_date)
            a == NextChunk
            b == FollowingChunk
        IN  /\ SummaryAfter(summary_stats, a, doy) = Merge(summary_stats, Partial(a))
            /\ SummaryAfter(SummaryAfter(summary_stats, a, doy), b, doy)
                   = SummaryAfter(SummaryAfter(summary_stats, b, doy), a, doy)
            /\ Merge(Merge(summary_stats, Partial(a)), Partial(b))
                   = Merge(summary_stats, Merge(Partial(a), Partial(b)))
            /\ SummaryAfter(SummaryAfter(summary_stats, a, doy), b, doy)
                   = Merge(summary_stats, Merge(Partial(b), Partial(a)))

\* a running summary and two further chunks that all count a record of the
\* same year, the two chunks in different months
C13_Witness ==
    /\ prog = "create_ytd_optimized_file" /\ pc = "scan"
    /\ \E year \in DOMAIN summary_stats :
          /\ year \in DOMAIN Partial(NextChunk)
          /\ year \in DOMAIN Partial(FollowingChunk)
          /\ DOMAIN Partial(NextChunk)[year].by_month
                 # DOMAIN Partial(FollowingChunk)[year].by_month

(***************************************************************************)
(* The input file of preprocess_large_csv.py, of the notebook and of       *)
(* load_complete_data: the columns these read.  CUSTOMER_NO is the number   *)
(* of the row in the file.                                                   *)
(***************************************************************************)
ScanRow(open, reg, eligible, region, age) ==
    [open |-> open, reg |-> reg, eligible |-> eligible, region |-> region,
     age |-> age]

ScanRows ==
    {ScanRow(Stamp(2024, 3, 1, 0), Stamp(2024, 3, 4, 0), "Y", "North", 30),
     ScanRow(Stamp(2024, 3, 20, 0), NaT, "Y", "North", 40),
     ScanRow(Stamp(2024, 3, 5, 0), Stamp(2024, 3, 6, 0), "N", "North", 50),
     ScanRow(Stamp(2023, 3, 1, 0), NaT, "Y", "South", 40),
     ScanRow(NaT, Stamp(2024, 1, 4, 0), "Y", "North", 30),
     ScanRow(Stamp(2024, 3, 1, 0), NaT, "Y", "nan", 50)}

Numbered(row, i) ==
    [CUSTOMER_NO |-> i, open |-> row.open, reg |-> row.reg,
     eligible |-> row.eligible, region |-> row.region, age |-> row.age]

ScanFiles ==
    UNION {{[i \in 1..n |-> Numbered(rows[i], i)] : rows \in [1..n -> ScanRows]} :
              n \in 0..MaxRows}

\* list.append(frame)
KeepLastFrame(list, frame) == <<frame>>

KeepFrame(list, frame) == Append(list, frame)

\* pd.concat(frames, ignore_index=True)
RECURSIVE Concat(_)
Concat(frames) ==
    IF frames = <<>> THEN <<>> ELSE Head(frames) \o Concat(Tail(frames))

(***************************************************************************)
(* preprocess_large_csv.py, create_yearly_files                             *)
(***************************************************************************)
\* the group of chunk.groupby('year') for a year; a row with a NaT open date
\* is in no group
YearGroup(chunk, year) ==
    SelectSeq(chunk, LAMBDA row : ~IsNa(row.open) /\ row.open.year = year)

\* yearly_data after the loop body has run on one chunk
YearlyAfter(data, chunk) ==
    [year \in DOMAIN data \cup YearsOf(chunk) |->
        IF year \in YearsOf(chunk)
        THEN KeepFrame(Get(data, year, <<>>), YearGroup(chunk, year))
        ELSE data[year]]

\* the loop body on one chunk; the progress line processed/total_rows raises
\* on a file without data rows
YearlyChunk ==
    /\ prog = "preprocess_large_csv"
    /\ pc = "create_yearly_files"
    /\ yearly_data' = YearlyAfter(yearly_data, NextChunk)
    /\ rows_processed' = rows_processed + Len(NextChunk)
    /\ pc' = IF Len(file) = 0 THEN "ZeroDivisionError"
             ELSE IF LastChunk THEN "save_yearly_files" ELSE pc
    /\ UNCHANGED <<prog, file, reference_date, chunk_size, summary_stats, ytd_data,
                   daily_patterns, selection, comparisons, outputs, summary_data,
                   final_summary, recent_data, chunks, df, deriveVars, metricVars, runVars, sessionVars>>

\* one customer_data_<year>.csv per year, holding pd.concat of the year's list
SaveYearlyFiles ==
    /\ prog = "preprocess_large_csv"
    /\ pc = "save_yearly_files"
    /\ outputs' =
           outputs \cup {Output("customer_data", year, TRUE) : year \in DOMAIN yearly_data}
    /\ pc' = "create_sample_file"
    /\ UNCHANGED <<prog, file, reference_date, chunk_size, rows_processed,
                   summary_stats, ytd_data, daily_patterns, selection, comparisons,
                   scanVars, deriveVars, metricVars, runVars, sessionVars>>

(***************************************************************************)
(* ytd_comparison_dashboard.py, load_complete_data; an exception is caught *)
(* by the caller, which reports it                                           *)
(***************************************************************************)
LoadChunk ==
    /\ prog = "load_complete_data"
    /\ pc = "load"
    /\ chunks' = KeepFrame(chunks, NextChunk)
    /\ rows_processed' = rows_processed + Len(NextChunk)
    /\ pc' = IF Len(file) = 0 THEN "ZeroDivisionError"
             ELSE IF LastChunk THEN "concat" ELSE pc
    /\ UNCHANGED <<prog, file, reference_date, chunk_size, summary_stats, ytd_data,
                   daily_patterns, selection, comparisons, outputs, yearly_data,
                   summary_data, final_summary, recent_data, df, deriveVars,
                   metricVars, runVars, sessionVars>>

LoadConcat ==
    /\ prog = "load_complete_data"
    /\ pc = "concat"
    /\ df' = Concat(chunks)
    /\ pc' = "done"
    /\ UNCHANGED <<prog, file, reference_date, chunk_size, rows_processed,
                   summary_stats, ytd_data, daily_patterns, selection, comparisons,
                   outputs, yearly_data, summary_data, final_summary, recent_data,
                   chunks, deriveVars, metricVars, runVars, sessionVars>>

(***************************************************************************)
(* preprocess_large_csv.py, create_sample_file.  sample_size stands for    *)
(* the 100000 of the source; the sample is kept in df.                      *)
(***************************************************************************)
sample_size == 2

\* np.random.choice(range(1, total_rows), total_rows - sample_size,
\* replace=False): the numbers of the rows that are skipped
SkipRows(total_rows) ==
    {skip \in SUBSET (1..(total_rows - 1)) :
        Cardinality(skip) = total_rows - sample_size}

\* pd.read_csv(input_file, skiprows=skip_rows); line 0 of the file is the
\* header, so that line i is data row i
ReadSkipping(skip_rows) ==
    LET kept == {i \in DOMAIN file : i \notin skip_rows}
        Nth[k \in 1..Cardinality(kept)] ==
            CHOOSE i \in kept : Cardinality({j \in kept : j < i}) = k - 1
    IN  [k \in 1..Cardinality(kept) |-> file[Nth[k]]]

CreateSampleFile ==
    /\ prog = "preprocess_large_csv"
    /\ pc = "create_sample_file"
    /\ IF Len(file) > sample_size
       THEN \E skip_rows \in SkipRows(Len(file)) : df' = ReadSkipping(skip_rows)
       ELSE df' = file
    /\ outputs' = outputs \cup {Output("customer_data_sample", 0, TRUE)}
    /\ rows_processed' = 0
    /\ pc' = "create_summary_stats"
    /\ UNCHANGED <<prog, file, reference_date, chunk_size, summary_stats, ytd_data,
                   daily_patterns, selection, comparisons, yearly_data,
                   summary_data, final_summary, recent_data, chunks, deriveVars,
                   metricVars, runVars, sessionVars>>

(***************************************************************************)
(* large_file_notebook.py, the sample cell: the same sampling without the  *)
(* test total_rows > sample_size                                            *)
(***************************************************************************)
\* np.random.choice raises ValueError on a negative size
NotebookSampleCell ==
    /\ prog = "sample_cell"
    /\ pc = "sample"
    /\ IF Len(file) - sample_size < 0
       THEN /\ pc' = "ValueError"
            /\ UNCHANGED <<df, outputs>>
       ELSE /\ \E skip_rows \in SkipRows(Len(file)) : df' = ReadSkipping(skip_rows)
            /\ outputs' = outputs \cup {Output("sample_100k", 0, TRUE)}
            /\ pc' = "done"
    /\ UNCHANGED <<prog, file, reference_date, chunk_size, rows_processed,
                   summary_stats, ytd_data, daily_patterns, selection, comparisons,
                   yearly_data, summary_data, final_summary, recent_data, chunks,
                   deriveVars, metricVars, runVars, sessionVars>>

(***************************************************************************)
(* inet_dashboard.py, Load from Local Path: load_large_csv                  *)
(***************************************************************************)
\* the chunks of pd.read_csv(path, chunksize=size)
RECURSIVE ReadInChunks(_, _)
ReadInChunks(rows, size) ==
    IF Len(rows) <= size THEN <<rows>>
    ELSE <<SubSeq(rows, 1, size)>> \o ReadInChunks(SubSeq(rows, size + 1, Len(rows)), size)

\* the checkbox is created in the run of the click on 'Load File', so it is
\* unchecked when load_large_csv is called
use_sample == FALSE

LoadLargeCsv ==
    /\ prog = "load_large_csv"
    /\ pc = "load_file"
    /\ IF use_sample /\ Len(file) > sample_size
       THEN /\ \E skip_rows \in SkipRows(Len(file)) : df' = ReadSkipping(skip_rows)
            /\ chunks' = chunks
            /\ pc' = "sampled"
       ELSE /\ chunks' = ReadInChunks(file, chunk_size)
            /\ df' = Concat(ReadInChunks(file, chunk_size))
            /\ pc' = "loaded"
    /\ UNCHANGED <<prog, file, reference_date, chunk_size, rows_processed,
                   summary_stats, ytd_data, daily_patterns, selection, comparisons,
                   outputs, yearly_data, summary_data, final_summary, recent_data,
                   deriveVars, metricVars, runVars, sessionVars>>

(***************************************************************************)
(* The summary statistics of preprocess_large_csv.py (create_summary_stats)*)
(* and of the notebook (large_file_notebook.py, cell 4).  Of the numeric   *)
(* columns the model keeps AGE and its mean; the median and the balance    *)
(* columns are aggregated by the same calls.                                *)
(***************************************************************************)
FracAdd(a, b) == Frac(a.n * b.d + b.n * a.d, a.d * b.d)

FracDiv(a, k) == Frac(a.n, a.d * k)

\* groupby(['REGION_DESC', 'year_month']) drops a row whose region or whose
\* month is null
Grouped(row) == row.region # "nan" /\ ~IsNa(row.open)

GroupKey(row) == <<row.region, row.open.year, row.open.month>>

GroupKeys(rows) == {GroupKey(rows[i]) : i \in {j \in DOMAIN rows : Grouped(rows[j])}}

GroupOf(rows, key) == SelectSeq(rows, LAMBDA row : Grouped(row) /\ GroupKey(row) = key)

RECURSIVE SumColumn(_, _)
SumColumn(rows, column) ==
    IF rows = <<>> THEN 0 ELSE Head(rows)[column] + SumColumn(Tail(rows), column)

RECURSIVE SumMeans(_)
SumMeans(rows) ==
    IF rows = <<>> THEN Frac(0, 1)
    ELSE FracAdd(Head(rows).AGE_mean, SumMeans(Tail(rows)))

\* chunk.groupby([...]).agg({...})
ChunkSummary(chunk) ==
    [key \in GroupKeys(chunk) |->
        LET group == GroupOf(chunk, key)
        IN  [CUSTOMER_NO |-> Len(group),
             INET_ELIGIBLE |-> Count(group, LAMBDA row : row.eligible = "Y"),
             MOBILE_APP_REGISTRATION_DATE |-> Count(group, is_registered),
             AGE_mean |-> Frac(SumColumn(group, "age"), Len(group))]]

\* the rows of pd.concat(summary_data) that belong to one group
SummaryRows(frames, key) ==
    LET having == SelectSeq(frames, LAMBDA frame : key \in DOMAIN frame)
    IN  [i \in 1..Len(having) |-> having[i][key]]

SummaryKeys(frames) == UNION {DOMAIN frames[i] : i \in DOMAIN frames}

\* pd.concat(summary_data).groupby(['REGION_DESC', 'year_month']).sum()
SumOfSummaries(frames) ==
    [key \in SummaryKeys(frames) |->
        LET rows == SummaryRows(frames, key)
        IN  [CUSTOMER_NO |-> SumColumn(rows, "CUSTOMER_NO"),
             INET_ELIGIBLE |-> SumColumn(rows, "INET_ELIGIBLE"),
             MOBILE_APP_REGISTRATION_DATE |->
                 SumColumn(rows, "MOBILE_APP_REGISTRATION_DATE"),
             AGE_mean |-> SumMeans(rows)]]

\* the notebook: .agg({'CUSTOMER_NO_count': 'sum', ..., 'AGE_mean': 'mean', ...})
MeanOfSummaries(frames) ==
    [key \in SummaryKeys(frames) |->
        LET rows == SummaryRows(frames, key)
        IN  [CUSTOMER_NO |-> SumColumn(rows, "CUSTOMER_NO"),
             INET_ELIGIBLE |-> SumColumn(rows, "INET_ELIGIBLE"),
             MOBILE_APP_REGISTRATION_DATE |->
                 SumColumn(rows, "MOBILE_APP_REGISTRATION_DATE"),
             AGE_mean |-> FracDiv(SumMeans(rows), Len(rows))]]

SummaryStatsChunk ==
    /\ prog = "preprocess_large_csv"
    /\ pc = "create_summary_stats"
    /\ summary_data' = Append(summary_data, ChunkSummary(NextChunk))
    /\ rows_processed' = rows_processed + Len(NextChunk)
    /\ pc' = IF LastChunk THEN "save_summary_stats" ELSE pc
    /\ UNCHANGED <<prog, file, reference_date, chunk_size, summary_stats, ytd_data,
                   daily_patterns, selection, comparisons, outputs, yearly_data,
                   final_summary, recent_data, chunks, df, deriveVars, metricVars, runVars, sessionVars>>

SaveSummaryStats ==
    /\ prog = "preprocess_large_csv"
    /\ pc = "save_summary_stats"
    /\ final_summary' = SumOfSummaries(summary_data)
    /\ outputs' = outputs \cup {Output("customer_summary_stats", 0, TRUE)}
    /\ rows_processed' = 0
    /\ pc' = "create_recent_data_file"
    /\ UNCHANGED <<prog, file, reference_date, chunk_size, summary_stats, ytd_data,
                   daily_patterns, selection, comparisons, yearly_data,
                   summary_data, recent_data, chunks, df, deriveVars, metricVars, runVars, sessionVars>>

NotebookSummaryChunk ==
    /\ prog = "summary_statistics_cell"
    /\ pc = "summarise"
    /\ summary_data' = Append(summary_data, ChunkSummary(NextChunk))
    /\ rows_processed' = rows_processed + Len(NextChunk)
    /\ pc' = IF LastChunk THEN "save_summary" ELSE pc
    /\ UNCHANGED <<prog, file, reference_date, chunk_size, summary_stats, ytd_data,
                   daily_patterns, selection, comparisons, outputs, yearly_data,
                   final_summary, recent_data, chunks, df, deriveVars, metricVars, runVars, sessionVars>>

NotebookSaveSummary ==
    /\ prog = "summary_statistics_cell"
    /\ pc = "save_summary"
    /\ final_summary' = MeanOfSummaries(summary_data)
    /\ outputs' = outputs \cup {Output("summary_stats", 0, TRUE)}
    /\ pc' = "done"
    /\ UNCHANGED <<prog, file, reference_date, chunk_size, rows_processed,
                   summary_stats, ytd_data, daily_patterns, selection, comparisons,
                   yearly_data, summary_data, recent_data, chunks, df, deriveVars,
                   metricVars, runVars, sessionVars>>

(***************************************************************************)
(* preprocess_large_csv.py, create_recent_data_file; reference_date is the *)
(* time of the run                                                           *)
(***************************************************************************)
years_back == 2

\* pd.Timestamp.now() - pd.DateOffset(years=years_back)
cutoff_date ==
    Stamp(reference_date.year - years_back, reference_date.month,
          reference_date.day, reference_date.half)

\* chunk[chunk['AC_OPEN_DATE'] >= cutoff_date]
RecentRows(chunk) == SelectSeq(chunk, LAMBDA row : Ge(row.open, cutoff_date))

RecentChunk ==
    /\ prog = "preprocess_large_csv"
    /\ pc = "create_recent_data_file"
    /\ recent_data' = IF Len(RecentRows(NextChunk)) > 0
                      THEN Append(recent_data, RecentRows(NextChunk))
                      ELSE recent_data
    /\ rows_processed' = rows_processed + Len(NextChunk)
    /\ pc' = IF LastChunk THEN "save_recent_data" ELSE pc
    /\ UNCHANGED <<prog, file, reference_date, chunk_size, summary_stats, ytd_data,
                   daily_patterns, selection, comparisons, outputs, yearly_data,
                   summary_data, final_summary, chunks, df, deriveVars, metricVars, runVars, sessionVars>>

\* the file is written only if some row is recent
SaveRecentData ==
    /\ prog = "preprocess_large_csv"
    /\ pc = "save_recent_data"
    /\ outputs' = IF recent_data # <<>>
                  THEN outputs \cup {Output("customer_data_last_years", 0, TRUE)}
                  ELSE outputs
    /\ pc' = "done"
    /\ UNCHANGED <<prog, file, reference_date, chunk_size, rows_processed,
                   summary_stats, ytd_data, daily_patterns, selection, comparisons,
                   scanVars, deriveVars, metricVars, runVars, sessionVars>>

(***************************************************************************)
(* The chunked scans: one program on one file                               *)
(***************************************************************************)
ScanPrograms ==
    {"preprocess_large_csv", "summary_statistics_cell", "load_complete_data",
     "sample_cell", "load_large_csv"}

EntryPoint(program) ==
    IF program = "preprocess_large_csv" THEN "create_yearly_files"
    ELSE IF program = "summary_statistics_cell" THEN "summarise"
    ELSE IF program = "sample_cell" THEN "sample"
    ELSE IF program = "load_large_csv" THEN "load_file"
    ELSE "load"

InitScan ==
    /\ prog \in ScanPrograms
    /\ file \in ScanFiles
    /\ reference_date = Stamp(2026, 3, 10, 0)
    /\ chunk_size \in 1..MaxChunk
    /\ rows_processed = 0
    /\ summary_stats = EmptyDict
    /\ ytd_data = EmptyDict
    /\ daily_patterns = EmptyDict
    /\ selection = NoSelection
    /\ comparisons = {}
    /\ outputs = {}
    /\ pc = EntryPoint(prog)
    /\ IdleScan
    /\ IdleRun
    /\ IdleSession
    /\ raw = NoRow
    /\ derived = NotDerived
    /\ current_date = NaT
    /\ monthly_cohorts = EmptyDict
    /\ counts = NoCounts
    /\ metrics = NoMetrics

NextScan ==
    \/ YearlyChunk
    \/ SaveYearlyFiles
    \/ CreateSampleFile
    \/ SummaryStatsChunk
    \/ SaveSummaryStats
    \/ RecentChunk
    \/ SaveRecentData
    \/ NotebookSummaryChunk
    \/ NotebookSaveSummary
    \/ LoadChunk
    \/ LoadConcat
    \/ NotebookSampleCell
    \/ LoadLargeCsv

SpecScan == InitScan /\ [][NextScan]_vars

(***************************************************************************)
(* Properties of the chunked scans                                          *)
(***************************************************************************)
SummarySaved ==
    \/ prog = "preprocess_large_csv" /\
       Output("customer_summary_stats", 0, TRUE) \in outputs
    \/ prog = "summary_statistics_cell" /\ pc = "done"

\* C12: for every (region, month) group of the saved summary, the reported
\* mean of AGE is the sum of AGE over all records of the group in the file
\* divided by the number of those records, however the file was cut into
\* chunks.
C12_GroupMeanIsSumOverCount ==
    SummarySaved =>
        \A key \in GroupKeys(file) :
            /\ key \in DOMAIN final_summary
            /\ final_summary[key].AGE_mean.n * Len(GroupOf(file, key))
                   = final_summary[key].AGE_mean.d * SumColumn(GroupOf(file, key), "age")

YearlyFilesSaved == prog = "preprocess_large_csv" /\ pc \notin {"create_yearly_files",
                        "save_yearly_files", "ZeroDivisionError"}

\* the rows of customer_data_<year>.csv
YearlyFile(year) == Concat(yearly_data[year])

\* the places, over all yearly files, that hold the record of a source row
PlacesOf(customer_no) ==
    {place \in UNION {{<<year, k>> : k \in DOMAIN YearlyFile(year)} :
                          year \in DOMAIN yearly_data} :
        YearlyFile(place[1])[place[2]].CUSTOMER_NO = customer_no}

\* C14: a chunk never holds more than chunk_size records; once the yearly
\* files are saved, a record with a parseable open date is at exactly one
\* place of the yearly files, in the file of its open year, and a record
\* without one is in none; load_complete_data returns the records of the
\* source, each once, in source order.
C14_EveryRecordExactlyOnce ==
    /\ Len(NextChunk) <= chunk_size
    /\ \A i \in DOMAIN chunks : Len(chunks[i]) <= chunk_size
    /\ \A year \in DOMAIN yearly_data :
           \A i \in DOMAIN yearly_data[year] : Len(yearly_data[year][i]) <= chunk_size
    /\ YearlyFilesSaved =>
           \A i \in DOMAIN file :
               IF IsNa(file[i].open) THEN PlacesOf(i) = {}
               ELSE /\ Cardinality(PlacesOf(i)) = 1
                    /\ \A place \in PlacesOf(i) :
                           /\ place[1] = file[i].open.year
                           /\ YearlyFile(place[1])[place[2]] = file[i]
    /\ (prog = "load_complete_data" /\ pc = "done") => df = file

\* the yearly files of a file of two years with an undated record, collected
\* from more than one chunk
C14_Witness ==
    /\ YearlyFilesSaved
    /\ Cardinality(DOMAIN yearly_data) = 2
    /\ \E i \in DOMAIN file : IsNa(file[i].open)
    /\ chunk_size < Len(file)

(***************************************************************************)
(* run_ytd_analysis.py, and the __main__ of ytd_preprocessor.py that its   *)
(* run_preprocessing starts as a subprocess.  run.data_file: the data file *)
(* exists; run.src_dir, run.packages: what check_requirements found.       *)
(***************************************************************************)
no_requirements(data_file, src_dir, packages) == TRUE

\* False at the first requirement that is not met
check_requirements(data_file, src_dir, packages) ==
    data_file /\ src_dir /\ packages

CheckRequirements ==
    /\ run.entry = "run_ytd_analysis"
    /\ run.step = "main"
    /\ \E src_dir \in BOOLEAN, packages \in BOOLEAN :
          run' = [run EXCEPT
                      !.src_dir = src_dir,
                      !.packages = packages,
                      !.step = IF check_requirements(run.data_file, src_dir, packages)
                               THEN "choice" ELSE "exit"]
    /\ UNCHANGED <<deriveVars, metricVars, ytdVars, scanVars, sessionVars>>

\* input("Enter your choice (1-4): ")
Choices == {"1", "2", "3", "4", "5"}

SelectMode ==
    /\ run.step = "choice"
    /\ \E choice \in Choices :
          run' = [run EXCEPT
                      !.choice = choice,
                      !.step = CASE choice \in {"1", "2"} -> "run_preprocessing"
                                 [] choice = "3" -> "run_dashboard"
                                 [] choice = "4" -> "quick_analysis"
                                 [] OTHER -> "exit"]
    /\ UNCHANGED <<deriveVars, metricVars, ytdVars, scanVars, sessionVars>>

\* run_preprocessing up to subprocess.run: False if ytd_preprocessor.py is
\* not in the src folder
RunPreprocessing ==
    /\ run.step = "run_preprocessing"
    /\ \E preprocessor_script \in BOOLEAN :
          run' = IF preprocessor_script
                 THEN [run EXCEPT !.preprocessing = "running", !.step = "__main__"]
                 ELSE [run EXCEPT !.preprocessing = "failed", !.step = "exit"]
    /\ UNCHANGED <<deriveVars, metricVars, ytdVars, scanVars, sessionVars>>

\* ytd_preprocessor.py, __main__: exit(1) if the input file does not exist,
\* create_ytd_optimized_file otherwise
PreprocessorMain ==
    /\ run.step = "__main__"
    /\ IF run.data_file
       THEN /\ prog' = "create_ytd_optimized_file"
            /\ pc' = "scan"
            /\ run' = [run EXCEPT !.step = "create_ytd_optimized_file"]
       ELSE /\ run' = [run EXCEPT !.returncode = 1, !.step = "returned"]
            /\ UNCHANGED <<prog, pc>>
    /\ UNCHANGED <<file, reference_date, chunk_size, rows_processed, summary_stats,
                   ytd_data, daily_patterns, selection, comparisons, outputs,
                   deriveVars, metricVars, scanVars, sessionVars>>

Exceptions == {"TypeError", "KeyError", "ZeroDivisionError"}

\* an exception of create_ytd_optimized_file ends the process with a
\* traceback and a return code of 1; the function returns on no input, so
\* that the rest of __main__ (the summary, analyze_ytd_patterns) is not
\* reached
PreprocessorRaised ==
    /\ run.step = "create_ytd_optimized_file"
    /\ pc \in Exceptions
    /\ run' = [run EXCEPT !.returncode = 1, !.step = "returned"]
    /\ UNCHANGED <<deriveVars, metricVars, ytdVars, scanVars, sessionVars>>

\* run_preprocessing after subprocess.run, and what main does with its
\* result: in mode 1 run_dashboard if it is True
PreprocessingReturned ==
    /\ run.entry = "run_ytd_analysis"
    /\ run.step = "returned"
    /\ run' = [run EXCEPT
                   !.preprocessing = IF run.returncode = 0 THEN "succeeded" ELSE "failed",
                   !.step = IF run.returncode = 0 /\ run.choice = "1"
                            THEN "run_dashboard" ELSE "exit"]
    /\ UNCHANGED <<deriveVars, metricVars, ytdVars, scanVars, sessionVars>>

\* streamlit run of the first dashboard script found in the src folder
RunDashboard ==
    /\ run.step = "run_dashboard"
    /\ \E dashboard_script \in BOOLEAN :
          run' = [run EXCEPT !.dashboard = dashboard_script, !.step = "exit"]
    /\ UNCHANGED <<deriveVars, metricVars, ytdVars, scanVars, sessionVars>>

\* mode 4: streamlit run of ytd_comparison_dashboard.py if it exists
QuickAnalysis ==
    /\ run.step = "quick_analysis"
    /\ \E dashboard_script \in BOOLEAN :
          run' = [run EXCEPT !.dashboard = dashboard_script, !.step = "exit"]
    /\ UNCHANGED <<deriveVars, metricVars, ytdVars, scanVars, sessionVars>>

RunEntries == {"run_ytd_analysis", "ytd_preprocessor"}

\* the runner passes today as the reference date and no chunk size
InitRun ==
    /\ run \in {[NoRun EXCEPT !.entry = entry,
                              !.step = IF entry = "run_ytd_analysis"
                                       THEN "main" ELSE "__main__",
                              !.data_file = data_file] :
                    entry \in RunEntries, data_file \in BOOLEAN}
    /\ file \in IF run.data_file THEN Files ELSE {<<>>}
    /\ reference_date \in ReferenceDates
    /\ chunk_size = MaxChunk
    /\ prog = "none"
    /\ rows_processed = 0
    /\ summary_stats = EmptyDict
    /\ ytd_data = EmptyDict
    /\ daily_patterns = EmptyDict
    /\ selection = NoSelection
    /\ comparisons = {}
    /\ outputs = {}
    /\ pc = "idle"
    /\ IdleScan
    /\ IdleSession
    /\ raw = NoRow
    /\ derived = NotDerived
    /\ current_date = NaT
    /\ monthly_cohorts = EmptyDict
    /\ counts = NoCounts
    /\ metrics = NoMetrics

NextRun ==
    \/ CheckRequirements
    \/ SelectMode
    \/ RunPreprocessing
    \/ PreprocessorMain
    \/ ReadChunk
    \/ SaveYtdData
    \/ PreprocessorRaised
    \/ PreprocessingReturned
    \/ RunDashboard
    \/ QuickAnalysis

SpecRun == InitRun /\ [][NextRun]_vars

\* a chunk has been read, or something has been aggregated or written
ScanStarted ==
    \/ prog # "none"
    \/ rows_processed > 0
    \/ summary_stats # EmptyDict
    \/ outputs # {}

PreprocessingStarted ==
    run.step \in {"run_preprocessing", "__main__", "create_ytd_optimized_file",
                  "returned"}
        \/ run.preprocessing # "not started"

DashboardStarted == run.step \in {"run_dashboard", "quick_analysis"} \/ run.dashboard

\* C20: no chunk is read and nothing is aggregated or written unless the
\* source file exists; under run_ytd_analysis, preprocessing and the
\* dashboard are started only if the data file, the source directory and the
\* packages were all found, and in mode 1 the dashboard is started only after
\* preprocessing returned success.
C20_StepsStartAfterPrerequisite ==
    /\ ScanStarted => run.data_file
    /\ run.entry = "run_ytd_analysis" =>
          /\ (PreprocessingStarted \/ DashboardStarted) =>
                 (run.data_file /\ run.src_dir /\ run.packages)
          /\ (run.choice = "1" /\ DashboardStarted) =>
                 run.preprocessing = "succeeded"

\* mode 1 ended without a dashboard after the preprocessor, started on an
\* existing file, had failed having written some output
C20_Witness ==
    /\ run.entry = "run_ytd_analysis"
    /\ run.choice = "1"
    /\ run.step = "exit"
    /\ run.preprocessing = "failed"
    /\ outputs # {}
    /\ ~run.dashboard

(***************************************************************************)
(* Records held by a scan                                                   *)
(***************************************************************************)
\* the records referenced from a dict of lists of frames
HeldIn(data) == SumOver([key \in DOMAIN data |-> Len(Concat(data[key]))], DOMAIN data)

\* C21: while create_ytd_optimized_file scans and saves, the records it
\* holds (the rows kept in ytd_data from the chunks folded so far) are never
\* more than the chunk size.
C21_HoldsCurrentChunkOnly ==
    (prog = "create_ytd_optimized_file" /\ pc \in {"scan", "save"}) =>
        HeldIn(ytd_data) <= chunk_size

(***************************************************************************)
(* Properties of the sampling                                               *)
(***************************************************************************)
\* the sampling of the program is over
Sampled ==
    \/ prog = "preprocess_large_csv" /\
       Output("customer_data_sample", 0, TRUE) \in outputs
    \/ prog = "sample_cell" /\ pc # "sample"
    \/ prog = "load_large_csv" /\ pc # "load_file"

\* C22: when the file has no more data rows than the sample size, sampling
\* does not fail and returns all rows of the file, in create_sample_file, in
\* load_large_csv and in the notebook's sample cell.
C22_SmallFileIsReadInFull ==
    (Sampled /\ Len(file) <= sample_size) =>
        /\ pc \notin {"ValueError"}
        /\ df = file

\* the numbers of the rows of the file that are in the sample
SampledRows == {df[k].CUSTOMER_NO : k \in DOMAIN df}

\* C23: when the file has more data rows than the sample size, the sample
\* create_sample_file returns holds exactly sample_size distinct rows of the
\* file, and when it is about to sample, every row of the file is left out by
\* some choice of the rows to skip and kept by some other.
C23_SampleTreatsRowsAlike ==
    (prog = "preprocess_large_csv" /\ Len(file) > sample_size) =>
        /\ Sampled =>
              /\ Len(df) = sample_size
              /\ Cardinality(SampledRows) = sample_size
              /\ \A k \in DOMAIN df : df[k] = file[df[k].CUSTOMER_NO]
        /\ pc = "create_sample_file" =>
              \A i \in DOMAIN file :
                  /\ \E skip_rows \in SkipRows(Len(file)) : i \in skip_rows
                  /\ \E skip_rows \in SkipRows(Len(file)) : i \notin skip_rows

(***************************************************************************)
(* Properties of the funnels                                                *)
(***************************************************************************)
\* x is a number between 0 and 100
InPercentRange(x) == x.kind = "num" /\ 0 <= x.n /\ x.n <= 100 * x.d

\* C24: the stages of the customer journey of calculate_summary_metrics and
\* of the funnel of the YTD dashboard are progressively narrower: no stage
\* counts more than the stage before it, and every conversion rate (taken
\* where the stage before is not empty) is between 0 and 100, every drop-off
\* at least 0.
C24_FunnelStagesNarrow ==
    /\ metrics.fn = "calculate_summary_metrics" =>
          LET j == metrics.journey
          IN  \A i \in 2..Len(j.count) :
                  /\ j.count[i] <= j.count[i - 1]
                  /\ j.count[i - 1] > 0 =>
                         /\ InPercentRange(j.conversion_rate[i])
                         /\ InPercentRange(j.drop_off[i])
    /\ metrics.fn = "funnel_comparison" =>
          /\ counts.eligible <= counts.total
          /\ counts.registered <= counts.eligible
          /\ counts.active_30 <= counts.registered
          /\ \A i \in DOMAIN metrics.rates : InPercentRange(metrics.rates[i].value)

(***************************************************************************)
(* The year-to-date slice and the calendar                                  *)
(***************************************************************************)
\* the date is on or before the month and day of the reference date
OnOrBeforeReferenceDay(stamp) ==
    \/ stamp.month < reference_date.month
    \/ stamp.month = reference_date.month /\ stamp.day <= reference_date.day

\* the records of a year opened from Jan 1 to the reference month and day
CalendarYtd(year, region) ==
    SelectSeq(file, LAMBDA row :
        /\ ~IsNa(row.open)
        /\ row.open.year = year
        /\ OnOrBeforeReferenceDay(row.open)
        /\ (region = "All" \/ row.region = region))

\* C25: for every compared year, leap or not, the year-to-date rows the YTD
\* dashboard presents as 'Jan 1 - <reference month and day>', and the rows
\* create_ytd_optimized_file counts for the year, are exactly the records
\* opened in that year on or before that calendar month and day.
C25_YtdSliceEndsOnReferenceMonthDay ==
    /\ (prog = "ytd_comparison_dashboard" /\ pc = "done") =>
          \A year \in selection.years :
              ytd_data[year] = CalendarYtd(year, selection.region)
    /\ ScanFinished =>
          \A year \in YearsOf(file) :
              Get(summary_stats, year, NewYearStats).total_customers
                  = Len(CalendarYtd(year, "All"))

(***************************************************************************)
(* Cohort maturity                                                          *)
(***************************************************************************)
\* the columns of monthly_cohort_df besides Cohort_Month
CohortCountsAndRates ==
    {"Total_Accounts", "Registered_30d", "Registered_90d",
     "Registration_Rate_30d", "Registration_Rate_90d"}

\* the open month began less than n days before the reference time
OpenedWithin(month, n) ==
    Ticks(current_date) - Ticks(Stamp(month[1], month[2], 1, 0)) < n * TicksPerDay

\* C26: every cohort row carries, besides its counts and rates, a flag that
\* tells whether the cohort's open month is less than 30 days before the
\* reference time and one that tells whether it is less than 90 days before
\* it, the rates being reported all the same.
C26_CohortCarriesMaturityFlag ==
    (monthly_cohorts # EmptyDict /\ ~IsNa(raw.open)) =>
        \A month \in DOMAIN monthly_cohorts :
            LET row == monthly_cohorts[month]
                flags == DOMAIN row \ CohortCountsAndRates
            IN  /\ CohortCountsAndRates \subseteq DOMAIN row
                /\ \E flag \in flags : row[flag] = OpenedWithin(month, 30)
                /\ \E flag \in flags : row[flag] = OpenedWithin(month, 90)

(***************************************************************************)
(* The years analyze_ytd_patterns reports                                   *)
(***************************************************************************)
\* C27: when analyze_ytd_patterns has scanned the file, the years it has
\* totals for are exactly the years_to_analyze most recent open years of the
\* whole file, and the total of each is the number of the year's records
\* opened on a day of year up to today's, for every chunk size.
C27_ReportsMostRecentYears ==
    (prog = "analyze_ytd_patterns" /\ pc # "scan") =>
        /\ DOMAIN daily_patterns = RecentYears(YearsOf(file), years_to_analyze)
        /\ \A year \in DOMAIN daily_patterns :
               SumValues(daily_patterns[year].days)
                   = Cardinality(YtdRecords(year, "All"))

(***************************************************************************)
(* ytd_comparison_dashboard.py: one browser session.  Every interaction    *)
(* with a widget reruns the script from the top with st.session_state      *)
(* kept; a rerun requested while the script runs stops it at the next      *)
(* st.* call (the exception that stops it is not an Exception, so the      *)
(* try/except of the load does not catch it).                              *)
(***************************************************************************)
\* what can be typed into the 'File path:' input
Paths == {"", "a.csv", "b.csv"}

\* the files on disk: a header line and at most one record
Disks == [{"a.csv", "b.csv"} -> {rows \in Files : Len(rows) <= 1}]

\* os.path.exists(file_path)
exists(path) == path \in DOMAIN disk

\* load_complete_data: the frame, or the exception of the progress division
\* for a file of a header line only (total_rows = 0)
load_complete_data(path) ==
    LET total_rows == Len(disk[path])
        read == ReadInChunks(disk[path], MaxChunk)
    IN  IF total_rows = 0
        THEN [raised |-> "ZeroDivisionError", df |-> <<>>, total_rows |-> total_rows]
        ELSE [raised |-> "", df |-> Concat(read), total_rows |-> total_rows]

\* process_for_ytd(df): a copy of df with the derived columns added
ProcessedFrame(frame) ==
    [k \in DOMAIN frame |->
        frame[k] @@ [iNET_Registration_status |-> ytd_get_registration_status(frame[k]),
                     days_to_onboard |-> TimedeltaDays(frame[k].reg, frame[k].open)]]

\* the widget values of a script run
ScriptRun(file_path, button, interrupted) ==
    [pc |-> "initialise", file_path |-> file_path, button |-> button,
     interrupted |-> interrupted]

\* if 'full_data' not in st.session_state: ... = None, and the same for
\* 'processed_data'
InitialiseSessionState ==
    /\ script.pc = "initialise"
    /\ session_state' =
           [key \in DOMAIN session_state |->
               IF session_state[key] = Absent THEN None ELSE session_state[key]]
    /\ script' = [script EXCEPT !.pc = "load"]
    /\ UNCHANGED <<disk, deriveVars, metricVars, ytdVars, scanVars, runVars>>

\* if st.sidebar.button("Load Complete Dataset"): up to st.success
LoadCompleteDataset ==
    /\ script.pc = "load"
    /\ IF script.button /\ exists(script.file_path)
       THEN LET loaded == load_complete_data(script.file_path)
            IN  IF loaded.raised = ""
                THEN /\ session_state' =
                            [session_state EXCEPT !.full_data = Frame(loaded.df)]
                     /\ script' = [script EXCEPT !.pc = "st.success"]
                ELSE \* except Exception: st.error
                     /\ script' = [script EXCEPT !.pc = "process"]
                     /\ UNCHANGED session_state
       ELSE \* not clicked, or st.error("File not found...")
            /\ script' = [script EXCEPT !.pc = "process"]
            /\ UNCHANGED session_state
    /\ UNCHANGED <<disk, deriveVars, metricVars, ytdVars, scanVars, runVars>>

\* st.success(...) returned: st.session_state.processed_data = None
ClearProcessedData ==
    /\ script.pc = "st.success"
    /\ session_state' = [session_state EXCEPT !.processed_data = None]
    /\ script' = [script EXCEPT !.pc = "process"]
    /\ UNCHANGED <<disk, deriveVars, metricVars, ytdVars, scanVars, runVars>>

\* if full_data is not None and processed_data is None: process_for_ytd; then
\* the main dashboard is drawn and the run ends
ProcessIfLoaded ==
    /\ script.pc = "process"
    /\ session_state' =
           IF session_state.full_data # None /\ session_state.processed_data = None
           THEN [session_state EXCEPT
                    !.processed_data = Frame(ProcessedFrame(session_state.full_data.value))]
           ELSE session_state
    /\ script' = [script EXCEPT !.pc = "idle"]
    /\ UNCHANGED <<disk, deriveVars, metricVars, ytdVars, scanVars, runVars>>

\* the user changes the path or clicks the button after a run has ended
Rerun ==
    /\ script.pc = "idle"
    /\ \E file_path \in Paths, button \in BOOLEAN :
          script' = ScriptRun(file_path, button, script.interrupted)
    /\ UNCHANGED <<session_state, disk, deriveVars, metricVars, ytdVars, scanVars, runVars>>

\* the user changes the path while the script runs: the run stops at
\* st.success or at the st.spinner of the processing, and a new run starts
\* with the button not clicked
RerunDuringRun ==
    /\ script.pc \in {"st.success", "process"}
    /\ \E file_path \in Paths :
          script' = ScriptRun(file_path, FALSE, TRUE)
    /\ UNCHANGED <<session_state, disk, deriveVars, metricVars, ytdVars, scanVars, runVars>>

InitSession ==
    /\ session_state = NoSession
    /\ disk \in Disks
    /\ script \in {ScriptRun(file_path, FALSE, FALSE) : file_path \in Paths}
    /\ IdleYtd
    /\ IdleScan
    /\ IdleRun
    /\ raw = NoRow
    /\ derived = NotDerived
    /\ current_date = NaT
    /\ monthly_cohorts = EmptyDict
    /\ counts = NoCounts
    /\ metrics = NoMetrics

NextSession ==
    \/ InitialiseSessionState
    \/ LoadCompleteDataset
    \/ ClearProcessedData
    \/ ProcessIfLoaded
    \/ Rerun
    \/ RerunDuringRun

SpecSession == InitSession /\ [][NextSession]_vars

\* C28: at the end of every script run of the YTD dashboard session, a
\* non-null processed_data is process_for_ytd of the dataset that full_data
\* holds
C28_ProcessedDataIsOfFullData ==
    (script.pc = "idle" /\ session_state.processed_data # None) =>
        /\ session_state.full_data # None
        /\ session_state.processed_data.value =
               ProcessedFrame(session_state.full_data.value)

\* the sum of the by_region totals of a year's summary
RegionTotals(stats) ==
    SumValues([region \in DOMAIN stats.by_region |-> stats.by_region[region].total])

\* a record of the chunks read so far that is in the year's YTD slice and has
\* no region
LacksRegion(year) ==
    \E i \in 1..rows_processed :
        InYtd(file[i], year, reference_doy) /\ file[i].region = "nan"

\* C29: after every chunk of create_ytd_optimized_file, for every year of the
\* summary: total_customers is the sum of the by_month counts; the by_region
\* totals sum to at most total_customers, and to exactly total_customers when
\* no record lacks a region; eligible and registered are at most
\* total_customers; a region's registered count is at most the region's total
C29_SummaryCountersConsistent ==
    prog = "create_ytd_optimized_file" =>
        \A year \in DOMAIN summary_stats :
            LET stats == summary_stats[year]
            IN  /\ stats.total_customers = SumValues(stats.by_month)
                /\ RegionTotals(stats) <= stats.total_customers
                /\ ~LacksRegion(year) => RegionTotals(stats) = stats.total_customers
                /\ stats.eligible <= stats.total_customers
                /\ stats.registered <= stats.total_customers
                /\ \A region \in DOMAIN stats.by_region :
                       stats.by_region[region].registered <= stats.by_region[region].total

\* two chunks have been read, and a year of the summary counts a record that
\* has no region next to one that has
C29_Witness ==
    /\ prog = "create_ytd_optimized_file"
    /\ rows_processed > chunk_size
    /\ \E year \in DOMAIN summary_stats :
          /\ 0 < RegionTotals(summary_stats[year])
          /\ RegionTotals(summary_stats[year]) < summary_stats[year].total_customers
          /\ summary_stats[year].registered < summary_stats[year].total_customers

\* C30: for every record with a last-login date, process_data (streamlit_app
\* and mob_adoption_dashboard) gives Login_Bracket 'Last 30 Days' exactly when
\* it gives Login_Frequency 'Weekly' or 'Monthly'
C30_BracketAgreesWithFrequency ==
    (derived.path \in {"streamlit_app", "mob_adoption_dashboard"} /\ ~IsNa(raw.last)) =>
        (derived.login_bracket = "Last 30 Days" <=>
             derived.activity \in {"Weekly", "Monthly"})

====
